---------------------------- MODULE Spec2Model ----------------------------
(***************************************************************************)
(* Provider response normalization and streaming adapters of Nova-Code:    *)
(* the OpenAI-compatible client (packages/core/src/core/openAIClient.ts)   *)
(* and the Ollama client with fenced-text tool calls.                      *)
(*                                                                         *)
(* Strings are sequences of one-character strings.  An absent (undefined)  *)
(* string is the value Undef; the empty string is <<>>.                    *)
(***************************************************************************)
EXTENDS Integers, Sequences, FiniteSets, TLC

VARIABLES
    pc,               \* position of the running operation
    toolCallBuffers,  \* OpenAIStreamParser.toolCallBuffers (insertion-ordered Map)
    lastResponseId,   \* OpenAIStreamParser.lastResponseId
    yielded,          \* increments handed to the consumer so far, in order
    uuidCtr,          \* number of randomUUID() values drawn so far
    nFrames,          \* data frames processed so far
    slotFragments,    \* history: per slot index, every argument fragment received
    slotCalls,        \* history: per slot index, the calls yielded for that index
    slotSeen,         \* history: per slot index, accumulators created for it
    usageSeen,        \* history: the usage objects the data frames carried
    lastFrame,        \* history: the frame processed last, the accumulators it
                      \* found and the increments it yielded
    contents,         \* the conversation of the caller (request.contents), shared by reference
    original,         \* history: that conversation as it was before the request
    normalized,       \* what normalizeToolHistory returned for the request
    messages,         \* the message list sent to the Ollama backend
    renormalized,     \* normalizeToolHistory applied to its own output
    adapter,          \* which client is streaming: "openai" or "ollama"
    wire,             \* the bytes of the response body, in transport order
    received,         \* how many of them reader.read() has delivered
    streamBuffer,     \* let buffer of the stream generator (decoded, unframed text)
    decoderPending,   \* bytes the TextDecoder holds back (incomplete character)
    streamFinishReason, \* let finishReason of the Ollama streamGenerator
    streamUsage,      \* let usage of the Ollama streamGenerator
    readerLocked,     \* response.body.getReader() was called and not yet released
    aborted,          \* the caller aborted request.config.abortSignal
    streams,          \* two streaming responses of one client, pulled in turn
    callClient,       \* which client serves generateContent: "openai" or "ollama"
    configuredModel,  \* contentGeneratorConfig.localModel.model
    callRequest,      \* the GenerateContentParameters of the call
    callPayload,      \* the body handed to fetch
    callError,        \* the error the call threw, if any
    fetchCount,       \* how many times fetch was called
    callReply,        \* the JSON body the backend answered with
    callResult,       \* the GenerateContentResponse returned to the caller
    replySegments,    \* history: the pieces the text of the answer is made of
    callStream,       \* the call is generateContentStream (body.stream)
    httpResponse,     \* the Response fetch resolved with, if it resolved
    errorText,        \* the message of the Error the call threw
    totalTokens       \* what countTokens returned

parserVars == <<toolCallBuffers, lastResponseId, nFrames,
                slotFragments, slotCalls, slotSeen, usageSeen, lastFrame>>

histVars == <<contents, original, normalized, messages, renormalized>>

wireVars == <<adapter, wire, received, streamBuffer, decoderPending,
              streamFinishReason, streamUsage, readerLocked, aborted, streams>>

callVars == <<callClient, configuredModel, callRequest, callPayload, callError,
              fetchCount, callReply, callResult, replySegments,
              callStream, httpResponse, errorText, totalTokens>>

vars == <<pc, yielded, uuidCtr, parserVars, histVars, wireVars, callVars>>

-----------------------------------------------------------------------------
(* Bounds *)
MaxFrames == 3
MaxParts == 3
MaxLines == 3
MaxCancelLines == 2

-----------------------------------------------------------------------------
(* Basic values *)

Undef == <<"undefined">>

WS == {" ", "\n"}

RECURSIVE TrimLeft(_)
TrimLeft(s) ==
    IF s # <<>> /\ Head(s) \in WS THEN TrimLeft(Tail(s)) ELSE s

RECURSIVE TrimRight(_)
TrimRight(s) ==
    IF s # <<>> /\ s[Len(s)] \in WS
    THEN TrimRight(SubSeq(s, 1, Len(s) - 1))
    ELSE s

\* String.prototype.trim
Trim(s) == TrimRight(TrimLeft(s))

\* JavaScript truthiness of an optional string
Truthy(s) == s # Undef /\ s # <<>>

UUIDS == <<<<"uuid-1">>, <<"uuid-2">>, <<"uuid-3">>, <<"uuid-4">>, <<"uuid-5">>,
           <<"uuid-6">>, <<"uuid-7">>, <<"uuid-8">>, <<"uuid-9">>, <<"uuid-10">>,
           <<"uuid-11">>, <<"uuid-12">>>>

\* the (n+1)-th value drawn from randomUUID(): fresh, never equal to a wire id
randomUUID(n) == UUIDS[n + 1]

-----------------------------------------------------------------------------
(* JSON values.  A parsed value is a record [t, n, raw]:                   *)
(*   t = "obj"  the empty object {}            t = "num"  the number n     *)
(*   t = "null" the literal null               t = "raw"  { raw: <text> }  *)
(*   t = "undef" no value (parse failure / undefined)                      *)

JUndef == [t |-> "undef", n |-> 0, raw |-> <<>>]
JObj == [t |-> "obj", n |-> 0, raw |-> <<>>]
JNull == [t |-> "null", n |-> 0, raw |-> <<>>]
JNum(k) == [t |-> "num", n |-> k, raw |-> <<>>]
JRaw(s) == [t |-> "raw", n |-> 0, raw |-> s]

Digits == {"0", "1"}
DigitVal(c) == IF c = "1" THEN 1 ELSE 0

RECURSIVE NumVal(_)
NumVal(s) == IF s = <<>> THEN 0 ELSE 10 * NumVal(SubSeq(s, 1, Len(s) - 1)) + DigitVal(s[Len(s)])

IsNumber(s) ==
    /\ s # <<>>
    /\ \A i \in 1..Len(s) : s[i] \in Digits
    /\ (Len(s) > 1 => s[1] # "0")

IsObject(s) ==
    /\ Len(s) >= 2
    /\ s[1] = "{"
    /\ s[Len(s)] = "}"
    /\ \A i \in 2..(Len(s) - 1) : s[i] \in WS

\* JSON.parse on the modelled JSON subset: {} (inner blanks allowed),
\* unsigned integers over the digits 0 and 1, and null (the character "n");
\* blanks around the value are allowed.  JUndef stands for a SyntaxError.
JSONparse(s) ==
    LET t == Trim(s) IN
    IF IsObject(t) THEN JObj
    ELSE IF IsNumber(t) THEN JNum(NumVal(t))
    ELSE IF t = <<"n">> THEN JNull
    ELSE JUndef

\* JavaScript truthiness of a parsed value
JTruthy(v) == v.t \in {"obj", "raw"} \/ (v.t = "num" /\ v.n # 0)

\* v is null or undefined (the left operand test of ??)
JNullish(v) == v.t \in {"undef", "null"}

safeJsonParse(value) ==
    IF ~Truthy(value) THEN JUndef
    ELSE IF Trim(value) = <<>> THEN JUndef
    ELSE JSONparse(Trim(value))

-----------------------------------------------------------------------------
(* Response mapping helpers of the OpenAI client *)

NoCall == [id |-> Undef, name |-> Undef, args |-> JUndef, isClientInitiated |-> FALSE]

NoResponse == [id |-> Undef, name |-> Undef, response |-> JUndef]

\* a Part: kind says which member is set ("other": inlineData and the like)
TextPart(s) ==
    [kind |-> "text", text |-> s, functionCall |-> NoCall, functionResponse |-> NoResponse]
CallPart(c) ==
    [kind |-> "functionCall", text |-> Undef, functionCall |-> c,
     functionResponse |-> NoResponse]
ResponsePart(r) ==
    [kind |-> "functionResponse", text |-> Undef, functionCall |-> NoCall,
     functionResponse |-> r]

RECURSIVE CallParts(_)
CallParts(calls) ==
    IF calls = <<>> THEN <<>> ELSE <<CallPart(Head(calls))>> \o CallParts(Tail(calls))

NoContent == [form |-> "absent", str |-> <<>>, items |-> <<>>]
StringContent(s) == [form |-> "string", str |-> s, items |-> <<>>]
ArrayContent(items) == [form |-> "array", str |-> <<>>, items |-> items]

ContentItem(type, text, url) == [type |-> type, text |-> text, url |-> url]

RECURSIVE ItemsToParts(_)
ItemsToParts(items) ==
    IF items = <<>> THEN <<>>
    ELSE LET item == Head(items)
             rest == ItemsToParts(Tail(items))
         IN  IF item.type \in {"text", "input_text"}
             THEN (IF Truthy(item.text) THEN <<TextPart(item.text)>> ELSE <<>>) \o rest
             ELSE IF item.type = "image_url"
             THEN (IF Truthy(item.url)
                   THEN <<TextPart(<<"[Image content: ">> \o item.url \o <<"]">>)>>
                   ELSE <<>>) \o rest
             ELSE rest

openAIContentToGeminiParts(content) ==
    IF content.form = "absent" THEN <<>>
    ELSE IF content.form = "string"
    THEN (IF content.str # <<>> THEN <<TextPart(content.str)>> ELSE <<>>)
    ELSE ItemsToParts(content.items)

NoReason == "NONE"

\* a mapping without the case for tool_calls
mapFinishReason_noToolCallsCase(reason) ==
    IF ~Truthy(reason) THEN NoReason
    ELSE IF reason = <<"stop">> THEN "STOP"
    ELSE IF reason = <<"length">> THEN "MAX_TOKENS"
    ELSE IF reason = <<"content_filter">> THEN "SAFETY"
    ELSE "OTHER"

mapFinishReason(reason) ==
    IF ~Truthy(reason) THEN NoReason
    ELSE IF reason = <<"stop">> THEN "STOP"
    ELSE IF reason = <<"length">> THEN "MAX_TOKENS"
    ELSE IF reason = <<"content_filter">> THEN "SAFETY"
    ELSE IF reason = <<"tool_calls">> THEN NoReason
    ELSE "OTHER"

\* a count that is absent on the wire / in the metadata
NoCount == -1

NoUsage == [present |-> FALSE, prompt_tokens |-> NoCount,
            completion_tokens |-> NoCount, total_tokens |-> NoCount]
Usage(p, c, t) == [present |-> TRUE, prompt_tokens |-> p,
                   completion_tokens |-> c, total_tokens |-> t]

NoMetadata == [present |-> FALSE, promptTokenCount |-> NoCount,
               candidatesTokenCount |-> NoCount, totalTokenCount |-> NoCount]

usageToMetadata(usage) ==
    IF ~usage.present THEN NoMetadata
    ELSE [present |-> TRUE,
          promptTokenCount |-> usage.prompt_tokens,
          candidatesTokenCount |-> usage.completion_tokens,
          totalTokenCount |-> usage.total_tokens]

-----------------------------------------------------------------------------
(* ToolCallAccumulator *)

NewAccumulator ==
    [id |-> Undef, name |-> Undef, rawArguments |-> <<>>,
     parsedArgs |-> JUndef, emitted |-> FALSE]

\* an OpenAIToolCallMessage delta; index NoIndex is an absent index
NoIndex == -1
Delta(index, id, name, arguments) ==
    [index |-> index, id |-> id, name |-> name, arguments |-> arguments]

append(acc, delta) ==
    LET WithArguments(a, raw, parsed) ==
            [a EXCEPT !.rawArguments = raw,
                      !.parsedArgs = IF JTruthy(parsed) THEN parsed ELSE @]
        AfterName(a) ==
            IF delta.arguments # Undef
            THEN WithArguments(a, a.rawArguments \o delta.arguments,
                               safeJsonParse(a.rawArguments \o delta.arguments))
            ELSE a
        AfterId(a) ==
            AfterName(IF Truthy(delta.name) THEN [a EXCEPT !.name = delta.name] ELSE a)
    IN  AfterId(IF Truthy(delta.id) THEN [acc EXCEPT !.id = delta.id] ELSE acc)

\* result of tryBuild / finalize: the accumulator afterwards, whether a call
\* was returned, the call, and how many UUIDs were drawn
tryBuild(acc) ==
    IF acc.emitted
    THEN [acc |-> acc, some |-> FALSE, call |-> NoCall]
    ELSE IF ~Truthy(acc.id) \/ ~Truthy(acc.name) \/ ~JTruthy(acc.parsedArgs)
    THEN [acc |-> acc, some |-> FALSE, call |-> NoCall]
    ELSE [acc |-> [acc EXCEPT !.emitted = TRUE],
          some |-> TRUE,
          call |-> [id |-> acc.id, name |-> acc.name, args |-> acc.parsedArgs,
                    isClientInitiated |-> FALSE]]

\* finalize that, like tryBuild, gives up on an accumulator lacking an id, a
\* name or parsed arguments
finalize_requiresComplete(acc, n) ==
    IF acc.emitted \/ ~Truthy(acc.id) \/ ~Truthy(acc.name) \/ ~JTruthy(acc.parsedArgs)
    THEN [acc |-> acc, some |-> FALSE, call |-> NoCall, drawn |-> 0]
    ELSE [acc |-> [acc EXCEPT !.emitted = TRUE],
          some |-> TRUE,
          call |-> [id |-> acc.id, name |-> acc.name, args |-> acc.parsedArgs,
                    isClientInitiated |-> FALSE],
          drawn |-> 0]

\* finalize that forgets the value parsed earlier: the arguments are the parse
\* of the whole text or else the wrapper
finalize_forgetsParsed(acc, n) ==
    IF acc.emitted
    THEN [acc |-> acc, some |-> FALSE, call |-> NoCall, drawn |-> 0]
    ELSE LET Args(reparsed) ==
                 IF ~JNullish(reparsed) THEN reparsed
                 ELSE IF Truthy(acc.rawArguments) THEN JRaw(acc.rawArguments)
                 ELSE JObj
         IN  [acc |-> [acc EXCEPT !.id = IF ~Truthy(acc.id) THEN randomUUID(n) ELSE @,
                                  !.name = IF ~Truthy(acc.name) THEN <<"tool_call">>
                                           ELSE @,
                                  !.emitted = TRUE],
              some |-> TRUE,
              call |-> [id |-> IF ~Truthy(acc.id) THEN randomUUID(n) ELSE acc.id,
                        name |-> IF ~Truthy(acc.name) THEN <<"tool_call">> ELSE acc.name,
                        args |-> Args(safeJsonParse(acc.rawArguments)),
                        isClientInitiated |-> FALSE],
              drawn |-> IF ~Truthy(acc.id) THEN 1 ELSE 0]

finalize(acc, n) ==
    IF acc.emitted
    THEN [acc |-> acc, some |-> FALSE, call |-> NoCall, drawn |-> 0]
    ELSE LET Args(reparsed) ==
                 IF ~JNullish(acc.parsedArgs) THEN acc.parsedArgs
                 ELSE IF ~JNullish(reparsed) THEN reparsed
                 ELSE IF Truthy(acc.rawArguments) THEN JRaw(acc.rawArguments)
                 ELSE JObj
             Result(id, name, args) ==
                 [acc |-> [acc EXCEPT !.id = id, !.name = name, !.emitted = TRUE],
                  some |-> TRUE,
                  call |-> [id |-> id, name |-> name, args |-> args,
                            isClientInitiated |-> FALSE],
                  drawn |-> IF ~Truthy(acc.id) THEN 1 ELSE 0]
         IN  Result(IF ~Truthy(acc.id) THEN randomUUID(n) ELSE acc.id,
                    IF ~Truthy(acc.name) THEN <<"tool_call">> ELSE acc.name,
                    Args(safeJsonParse(acc.rawArguments)))

-----------------------------------------------------------------------------
(* OpenAIStreamParser.  toolCallBuffers is a Map<number, ToolCallAccumulator>, *)
(* modelled as the sequence of its entries in insertion order.                 *)

MapHas(m, k) == \E i \in 1..Len(m) : m[i].index = k
MapPos(m, k) == CHOOSE i \in 1..Len(m) : m[i].index = k
MapGet(m, k) == m[MapPos(m, k)].acc
MapSet(m, k, a) ==
    IF MapHas(m, k)
    THEN [m EXCEPT ![MapPos(m, k)] = [index |-> k, acc |-> a]]
    ELSE Append(m, [index |-> k, acc |-> a])
MapDelete(m, k) == SelectSeq(m, LAMBDA e : e.index # k)

\* captureToolCalls: returns the buffers afterwards, the completed calls, and
\* for the history variables the slot index of every completed call and of
\* every accumulator created
RECURSIVE captureLoop(_, _, _, _, _)
captureLoop(buffers, deltas, completed, emittedAt, createdAt) ==
    IF deltas = <<>>
    THEN [buffers |-> buffers, completed |-> completed,
          emittedAt |-> emittedAt, createdAt |-> createdAt]
    ELSE LET WithBuilt(index, fresh, built) ==
                 IF built.some
                 THEN captureLoop(MapDelete(MapSet(buffers, index, built.acc), index),
                                  Tail(deltas),
                                  Append(completed, built.call),
                                  Append(emittedAt, index),
                                  IF fresh THEN Append(createdAt, index) ELSE createdAt)
                 ELSE captureLoop(MapSet(buffers, index, built.acc),
                                  Tail(deltas), completed, emittedAt,
                                  IF fresh THEN Append(createdAt, index) ELSE createdAt)
             WithAccumulator(index, fresh, accumulator) ==
                 WithBuilt(index, fresh, tryBuild(append(accumulator, Head(deltas))))
             WithIndex(index, fresh) ==
                 WithAccumulator(index, fresh,
                                 IF fresh THEN NewAccumulator ELSE MapGet(buffers, index))
             AtIndex(index) == WithIndex(index, ~MapHas(buffers, index))
         IN  AtIndex(IF Head(deltas).index = NoIndex THEN 0 ELSE Head(deltas).index)

captureToolCalls(buffers, deltas) ==
    captureLoop(buffers, deltas, <<>>, <<>>, <<>>)

Increment(model, responseId, parts, finishReason, calls, usageMetadata) ==
    [modelVersion |-> model, responseId |-> responseId, parts |-> parts,
     finishReason |-> finishReason, functionCalls |-> calls,
     usageMetadata |-> usageMetadata]

NoIncrement == Increment(Undef, Undef, <<>>, NoReason, <<>>, NoMetadata)

\* the model the parser was constructed with (resolveModel(request.model))
fallbackModel == <<"gpt-4o-mini">>

Choice(content, tool_calls, finish_reason) ==
    [content |-> content, tool_calls |-> tool_calls, finish_reason |-> finish_reason]

Chunk(id, model, choices, usage) ==
    [id |-> id, model |-> model, choices |-> choices, usage |-> usage]

\* processChoice without the early return for a choice that carries nothing
processChoice_alwaysYields(buffers, choice, chunk) ==
    LET Build(cap, parts, finishReason, usageMetadata, nothing) ==
            [buffers |-> cap.buffers,
             lastResponseId |-> chunk.id,
             some |-> ~nothing,
             out |-> IF nothing THEN NoIncrement
                     ELSE Increment(IF Truthy(chunk.model) THEN chunk.model
                                    ELSE fallbackModel,
                                    chunk.id, parts, finishReason, cap.completed,
                                    usageMetadata),
             emittedAt |-> cap.emittedAt,
             createdAt |-> cap.createdAt]
        Decide(cap, parts, finishReason, usageMetadata) ==
            Build(cap, parts, finishReason, usageMetadata, FALSE)
        WithCaptured(contentParts, cap) ==
            Decide(cap, contentParts \o CallParts(cap.completed),
                   mapFinishReason(choice.finish_reason),
                   usageToMetadata(chunk.usage))
    IN  WithCaptured(openAIContentToGeminiParts(choice.content),
                     captureToolCalls(buffers, choice.tool_calls))

processChoice(buffers, choice, chunk) ==
    LET Build(cap, parts, finishReason, usageMetadata, nothing) ==
            [buffers |-> cap.buffers,
             lastResponseId |-> chunk.id,
             some |-> ~nothing,
             out |-> IF nothing THEN NoIncrement
                     ELSE Increment(IF Truthy(chunk.model) THEN chunk.model
                                    ELSE fallbackModel,
                                    chunk.id, parts, finishReason, cap.completed,
                                    usageMetadata),
             emittedAt |-> cap.emittedAt,
             createdAt |-> cap.createdAt]
        Decide(cap, parts, finishReason, usageMetadata) ==
            Build(cap, parts, finishReason, usageMetadata,
                  /\ parts = <<>>
                  /\ finishReason = NoReason
                  /\ ~usageMetadata.present
                  /\ cap.completed = <<>>)
        WithCaptured(contentParts, cap) ==
            Decide(cap, contentParts \o CallParts(cap.completed),
                   mapFinishReason(choice.finish_reason),
                   usageToMetadata(chunk.usage))
    IN  WithCaptured(openAIContentToGeminiParts(choice.content),
                     captureToolCalls(buffers, choice.tool_calls))

\* the for-loop of flushToolCalls over the Map's entries
RECURSIVE flushLoop(_, _, _, _)
flushLoop(entries, n, calls, emittedAt) ==
    IF entries = <<>>
    THEN [calls |-> calls, emittedAt |-> emittedAt, uuidCtr |-> n]
    ELSE LET Next(f) ==
                 flushLoop(Tail(entries), n + f.drawn,
                           IF f.some THEN Append(calls, f.call) ELSE calls,
                           IF f.some THEN Append(emittedAt, Head(entries).index)
                           ELSE emittedAt)
         IN  Next(finalize(Head(entries).acc, n))

flushToolCalls(buffers, lastId, n) ==
    IF buffers = <<>>
    THEN [buffers |-> buffers, some |-> FALSE, out |-> NoIncrement,
          emittedAt |-> <<>>, uuidCtr |-> n]
    ELSE LET Result(r) ==
                 [buffers |-> <<>>,
                  some |-> r.calls # <<>>,
                  out |-> IF r.calls = <<>> THEN NoIncrement
                          ELSE Increment(fallbackModel, lastId, CallParts(r.calls),
                                         NoReason, r.calls, NoMetadata),
                  emittedAt |-> r.emittedAt,
                  uuidCtr |-> r.uuidCtr]
         IN  Result(flushLoop(buffers, n, <<>>, <<>>))

\* the loop for (const choice of chunk.choices ?? []) with its yields
RECURSIVE choicesLoop(_, _, _, _, _, _, _)
choicesLoop(buffers, lastId, choices, chunk, outs, emittedAt, createdAt) ==
    IF choices = <<>>
    THEN [buffers |-> buffers, lastResponseId |-> lastId, outs |-> outs,
          emittedAt |-> emittedAt, createdAt |-> createdAt]
    ELSE LET Next(r) ==
                 choicesLoop(r.buffers, r.lastResponseId, Tail(choices), chunk,
                             IF r.some THEN Append(outs, r.out) ELSE outs,
                             emittedAt \o r.emittedAt, createdAt \o r.createdAt)
         IN  Next(processChoice(buffers, Head(choices), chunk))

processChunk(buffers, lastId, chunk) ==
    choicesLoop(buffers, lastId, chunk.choices, chunk, <<>>, <<>>, <<>>)

-----------------------------------------------------------------------------
(* The OpenAI streaming response at the level of parsed data frames:       *)
(* generateContentStream feeding OpenAIStreamParser, pulled to the end.    *)

Slots == {0, 1}

ArgFragments == {Undef, <<"{">>, <<"}">>, <<"1">>, <<"0">>, <<" ">>, <<"n">>}

Slot0Deltas ==
    {Delta(0, id, name, a) : id \in {Undef, <<"call_1">>},
                              name \in {Undef, <<"ping">>},
                              a \in ArgFragments}

Slot1Deltas ==
    {Delta(1, <<"call_2">>, <<"pong">>, a) : a \in {<<"{">>, <<"}">>, <<"{", "}">>}}

DeltaLists ==
    {<<d>> : d \in Slot0Deltas \cup Slot1Deltas}
    \cup {<<Delta(NoIndex, Undef, Undef, <<"}">>)>>,
          <<Delta(0, <<"call_1">>, <<"ping">>, <<"{", "}">>),
            Delta(1, <<"call_2">>, <<"pong">>, <<"{", "}">>)>>}

\* finish_reason on the wire: absent or null, empty, the four reasons the
\* mapping names, and one it does not name
FinishReasons ==
    {Undef, <<>>, <<"stop">>, <<"length">>, <<"content_filter">>, <<"tool_calls">>,
     <<"error">>}

\* the first frame of the streaming test: content as a list of items
HelloChunk ==
    Chunk(<<"chunk_1">>, <<"gpt-4o-mini">>,
          <<Choice(ArrayContent(<<ContentItem("text", <<"H", "e", "l", "l", "o">>, Undef)>>),
                   <<>>, Undef)>>,
          NoUsage)

\* a frame whose only content item is an image reference
ImageChunk ==
    Chunk(<<"chunk_1">>, <<"gpt-4o-mini">>,
          <<Choice(ArrayContent(<<ContentItem("image_url", Undef, <<"u">>)>>), <<>>, Undef)>>,
          NoUsage)

ParserChunks ==
    {Chunk(<<"chunk_1">>, <<"gpt-4o-mini">>, <<Choice(NoContent, dl, Undef)>>, NoUsage)
        : dl \in DeltaLists}
    \cup {Chunk(<<"chunk_1">>, <<>>, <<Choice(StringContent(<<"H", "i">>), <<>>, Undef)>>, NoUsage),
          Chunk(<<"chunk_1">>, <<"gpt-4o-mini">>,
                <<Choice(NoContent, <<>>, <<"stop">>)>>, Usage(8, 3, 11)),
          Chunk(<<"chunk_1">>, <<"gpt-4o-mini">>, <<>>, Usage(8, 3, 11))}
    \cup {Chunk(<<"chunk_1">>, <<"gpt-4o-mini">>, <<Choice(NoContent, <<>>, reason)>>,
                NoUsage) : reason \in FinishReasons \ {Undef, <<"stop">>}}
    \cup {HelloChunk, ImageChunk,
          Chunk(<<"chunk_1">>, <<"gpt-4o-mini">>,
                <<Choice(StringContent(<<"H", "i">>), <<>>, Undef),
                  Choice(NoContent, <<>>, Undef)>>, NoUsage)}

\* history bookkeeping: fragments per slot in arrival order
RECURSIVE FragmentsOf(_, _)
FragmentsOf(deltas, slot) ==
    IF deltas = <<>> THEN <<>>
    ELSE LET d == Head(deltas)
             index == IF d.index = NoIndex THEN 0 ELSE d.index
         IN  (IF index = slot /\ d.arguments # Undef THEN d.arguments ELSE <<>>)
             \o FragmentsOf(Tail(deltas), slot)

RECURSIVE ChunkFragments(_, _)
ChunkFragments(choices, slot) ==
    IF choices = <<>> THEN <<>>
    ELSE FragmentsOf(Head(choices).tool_calls, slot) \o ChunkFragments(Tail(choices), slot)

\* the calls among `calls` whose slot (same position in `at`) is `slot`
RECURSIVE CallsAt(_, _, _)
CallsAt(calls, at, slot) ==
    IF calls = <<>> THEN <<>>
    ELSE (IF Head(at) = slot THEN <<Head(calls)>> ELSE <<>>)
         \o CallsAt(Tail(calls), Tail(at), slot)

Count(seq, x) == Cardinality({i \in 1..Len(seq) : seq[i] = x})

RECURSIVE AllCalls(_)
AllCalls(incs) ==
    IF incs = <<>> THEN <<>> ELSE Head(incs).functionCalls \o AllCalls(Tail(incs))

NoFrame ==
    [kind |-> "none", chunk |-> Chunk(Undef, Undef, <<>>, NoUsage), before |-> <<>>,
     outs |-> <<>>]

ParserIdle ==
    /\ toolCallBuffers = <<>>
    /\ lastResponseId = Undef
    /\ nFrames = 0
    /\ slotFragments = [i \in Slots |-> <<>>]
    /\ slotCalls = [i \in Slots |-> <<>>]
    /\ slotSeen = [i \in Slots |-> 0]
    /\ usageSeen = {}
    /\ lastFrame = NoFrame

HistIdle ==
    /\ contents = <<>>
    /\ original = <<>>
    /\ normalized = <<>>
    /\ messages = <<>>
    /\ renormalized = <<>>

WireIdle ==
    /\ adapter = "none"
    /\ wire = <<>>
    /\ received = 0
    /\ streamBuffer = <<>>
    /\ decoderPending = <<>>
    /\ streamFinishReason = NoReason
    /\ streamUsage = NoMetadata
    /\ readerLocked = FALSE
    /\ aborted = FALSE
    /\ streams = <<>>

CallIdle ==
    /\ callClient = "none"
    /\ configuredModel = Undef
    /\ callRequest = <<>>
    /\ callPayload = <<>>
    /\ callError = "none"
    /\ fetchCount = 0
    /\ callReply = <<>>
    /\ callResult = <<>>
    /\ replySegments = <<>>
    /\ callStream = FALSE
    /\ httpResponse = <<>>
    /\ errorText = <<>>
    /\ totalTokens = NoCount

InitParser ==
    /\ pc = "open"
    /\ HistIdle
    /\ CallIdle
    /\ WireIdle
    /\ toolCallBuffers = <<>>
    /\ lastResponseId = Undef
    /\ yielded = <<>>
    /\ uuidCtr = 0
    /\ nFrames = 0
    /\ slotFragments = [i \in Slots |-> <<>>]
    /\ slotCalls = [i \in Slots |-> <<>>]
    /\ slotSeen = [i \in Slots |-> 0]
    /\ usageSeen = {}
    /\ lastFrame = NoFrame

\* one `data: <json>` line: lines 540-547
DataFrame ==
    /\ pc = "open"
    /\ nFrames < MaxFrames
    /\ \E chunk \in ParserChunks :
         \E r \in {processChunk(toolCallBuffers, lastResponseId, chunk)} :
             /\ toolCallBuffers' = r.buffers
             /\ lastResponseId' = r.lastResponseId
             /\ yielded' = yielded \o r.outs
             /\ slotFragments' = [i \in Slots |->
                                    slotFragments[i] \o ChunkFragments(chunk.choices, i)]
             /\ slotCalls' = [i \in Slots |->
                                slotCalls[i] \o CallsAt(AllCalls(r.outs), r.emittedAt, i)]
             /\ slotSeen' = [i \in Slots |-> slotSeen[i] + Count(r.createdAt, i)]
             /\ usageSeen' = IF chunk.usage.present THEN usageSeen \cup {chunk.usage}
                              ELSE usageSeen
             /\ lastFrame' = [kind |-> "data", chunk |-> chunk,
                               before |-> toolCallBuffers, outs |-> r.outs]
    /\ nFrames' = nFrames + 1
    /\ UNCHANGED <<pc, uuidCtr, histVars, wireVars, callVars>>

\* the line data: [DONE]: lines 533-539
Terminator ==
    /\ pc = "open"
    /\ \E f \in {flushToolCalls(toolCallBuffers, lastResponseId, uuidCtr)} :
           /\ toolCallBuffers' = f.buffers
           /\ yielded' = IF f.some THEN Append(yielded, f.out) ELSE yielded
           /\ uuidCtr' = f.uuidCtr
           /\ slotCalls' = [i \in Slots |->
                              slotCalls[i] \o CallsAt(f.out.functionCalls, f.emittedAt, i)]
           /\ lastFrame' = [NoFrame EXCEPT !.kind = "end", !.before = toolCallBuffers,
                                           !.outs = IF f.some THEN <<f.out>> ELSE <<>>]
    /\ pc' = "done"
    /\ UNCHANGED <<lastResponseId, nFrames, slotFragments, slotSeen, usageSeen,
                   histVars, wireVars, callVars>>

\* reader.read() reports done with nothing left in the buffer: lines 555-576
TransportEnd ==
    /\ pc = "open"
    /\ \E f \in {flushToolCalls(toolCallBuffers, lastResponseId, uuidCtr)} :
           /\ toolCallBuffers' = f.buffers
           /\ yielded' = IF f.some THEN Append(yielded, f.out) ELSE yielded
           /\ uuidCtr' = f.uuidCtr
           /\ slotCalls' = [i \in Slots |->
                              slotCalls[i] \o CallsAt(f.out.functionCalls, f.emittedAt, i)]
           /\ lastFrame' = [NoFrame EXCEPT !.kind = "end", !.before = toolCallBuffers,
                                           !.outs = IF f.some THEN <<f.out>> ELSE <<>>]
    /\ pc' = "closed"
    /\ UNCHANGED <<lastResponseId, nFrames, slotFragments, slotSeen, usageSeen,
                   histVars, wireVars, callVars>>

NextParser == DataFrame \/ Terminator \/ TransportEnd

SpecParser == InitParser /\ [][NextParser]_vars

Ended == pc \in {"done", "closed"}

-----------------------------------------------------------------------------
(* Properties of the streamed tool-call accumulation *)

\* C1: over one streaming response every slot index yields at most one
\* completed function call (opportunistic emission and end-of-stream flush
\* together); a delta for an already emitted slot never leads to a second call.
C1_AtMostOneCallPerSlot ==
    \A i \in Slots : Len(slotCalls[i]) <= 1

PendingSlots == {toolCallBuffers[k].index : k \in 1..Len(toolCallBuffers)}

\* C2: when the response ends, by the terminator or by the transport closing,
\* every slot that still holds an accumulator is finalized and its call is
\* yielded in one trailing increment; nothing buffered is dropped.
C2_FlushOnEnd ==
    [][(pc = "open" /\ pc' \in {"done", "closed"}) =>
         /\ toolCallBuffers' = <<>>
         /\ \A i \in Slots :
              Len(slotCalls'[i]) = Len(slotCalls[i]) + (IF i \in PendingSlots THEN 1 ELSE 0)
         /\ PendingSlots # {} =>
              /\ Len(yielded') = Len(yielded) + 1
              /\ Len(yielded'[Len(yielded')].functionCalls) = Cardinality(PendingSlots)
         /\ PendingSlots = {} => yielded' = yielded]_vars

\* a response closed without terminator whose flush finalized a call that
\* had no id yet, and one ended by the terminator with two calls flushed
C2_Witness ==
    /\ pc = "closed"
    /\ uuidCtr > 0
    /\ yielded # <<>>
    /\ yielded[Len(yielded)].functionCalls # <<>>

\* C3: if the concatenation of all argument fragments of a slot is valid JSON,
\* the call emitted for that slot carries the parse of the full concatenation.
C3_ArgsAreFullParse ==
    Ended =>
      \A i \in Slots :
        JSONparse(slotFragments[i]) # JUndef =>
          \A k \in 1..Len(slotCalls[i]) :
            slotCalls[i][k].args = JSONparse(slotFragments[i])

\* C16: whenever a data frame of an OpenAI streaming response carries a
\* usage object, some yielded increment carries its prompt, completion and
\* total counts verbatim, whatever the choices list of the frame holds.
C16_UsageNeverLost ==
    \A u \in usageSeen :
        \E i \in 1..Len(yielded) :
            /\ yielded[i].usageMetadata.present
            /\ yielded[i].usageMetadata.promptTokenCount = u.prompt_tokens
            /\ yielded[i].usageMetadata.candidatesTokenCount = u.completion_tokens
            /\ yielded[i].usageMetadata.totalTokenCount = u.total_tokens

\* the mapping of the wire reason as a table
FinishTable(reason) ==
    CASE reason = <<"stop">> -> "STOP"
      [] reason = <<"length">> -> "MAX_TOKENS"
      [] reason = <<"content_filter">> -> "SAFETY"
      [] reason = <<"tool_calls">> -> NoReason
      [] reason \in {Undef, <<>>} -> NoReason
      [] OTHER -> "OTHER"

-----------------------------------------------------------------------------
(* Ollama client: request building.  A message's content is a string, i.e. *)
(* a sequence of characters; a longer literal of the source (a fence, a    *)
(* key of a serialized object, an id) is one character of the model; the   *)
(* character "~~~" is the fence of three backticks.                         *)

Content(role, parts) == [role |-> role, parts |-> parts]

Message(role, content) == [role |-> role, content |-> content]

\* JSON.stringify of a string value
Quoted(s) == <<"\"">> \o s \o <<"\"">>

RECURSIVE NumText(_)
NumText(k) ==
    IF k < 10 THEN <<IF k = 1 THEN "1" ELSE "0">>
    ELSE NumText(k \div 10) \o <<IF k % 10 = 1 THEN "1" ELSE "0">>

\* JSON.stringify of a value of the modelled JSON subset
JSONstringify(v) ==
    IF v.t = "obj" THEN <<"{", "}">>
    ELSE IF v.t = "num" THEN NumText(v.n)
    ELSE IF v.t = "raw" THEN <<"{", "raw:">> \o Quoted(v.raw) \o <<"}">>
    ELSE <<"n">>

\* one "key":value member, left out when the value is undefined
Member(key, present, text) == IF present THEN <<key>> \o text ELSE <<>>

\* JSON.stringify(part.functionCall)
stringifyFunctionCall(fc) ==
    <<"{">> \o Member("id:", fc.id # Undef, Quoted(fc.id))
            \o Member("name:", fc.name # Undef, Quoted(fc.name))
            \o Member("args:", fc.args # JUndef, JSONstringify(fc.args))
            \o <<"}">>

partToText(part) ==
    IF part.kind = "text" THEN part.text
    ELSE IF part.kind = "functionCall" THEN stringifyFunctionCall(part.functionCall)
    ELSE <<>>

toLowerCase(role) == IF role = "MODEL" THEN "model" ELSE role

\* roles are plain strings; "" is an absent or empty role
mapRole(role) ==
    IF role = "" THEN "user"
    ELSE IF toLowerCase(role) \in {"model", "assistant"} THEN "assistant"
    ELSE IF toLowerCase(role) = "system" THEN "system"
    ELSE "user"

\* formatToolResult: the fenced block, and how many UUIDs it drew
formatToolResult(response, n) ==
    [text |-> <<"~~~", "tool_result", "\n", "{">>
              \o <<"call_id:">>
              \o Quoted(IF response.id = Undef THEN randomUUID(n) ELSE response.id)
              \o <<"name:">>
              \o Quoted(IF response.name = Undef THEN <<"tool">> ELSE response.name)
              \o <<"output:">>
              \o JSONstringify(IF JNullish(response.response) THEN JObj
                               ELSE response.response)
              \o <<"}", "\n", "~~~">>,
     drawn |-> IF response.id = Undef THEN 1 ELSE 0]

-----------------------------------------------------------------------------
(* normalizeToolHistory.  Parts are objects shared with the conversation   *)
(* of the caller, so the first pass also returns that conversation as the  *)
(* pass leaves it (seen / caller).                                         *)

\* a first pass that pushes every functionResponse part, known call id or not
keepsResponse_always(callId, callIds) == TRUE

\* lines 195-201: is a functionResponse part pushed to clonedParts
keepsResponse(callId, callIds) == ~Truthy(callId) \/ callId \in callIds

\* the loop over the parts of one content: lines 186-205
RECURSIVE scanParts(_, _, _, _, _, _)
scanParts(parts, callIds, resolvedCallIds, clonedParts, seen, n) ==
    IF parts = <<>>
    THEN [callIds |-> callIds, resolvedCallIds |-> resolvedCallIds,
          clonedParts |-> clonedParts, seen |-> seen, uuidCtr |-> n]
    ELSE LET part == Head(parts)
             OnCall(callId, p) ==
                 scanParts(Tail(parts), callIds \cup {callId}, resolvedCallIds,
                           Append(clonedParts, p), Append(seen, p),
                           IF part.functionCall.id = Undef THEN n + 1 ELSE n)
             OnResponse(callId) ==
                 scanParts(Tail(parts), callIds,
                           IF Truthy(callId) /\ callId \in callIds
                           THEN resolvedCallIds \cup {callId} ELSE resolvedCallIds,
                           IF keepsResponse(callId, callIds)
                           THEN Append(clonedParts, part) ELSE clonedParts,
                           Append(seen, part), n)
             WithCallId(callId) ==
                 OnCall(callId,
                        IF ~Truthy(part.functionCall.id)
                        THEN [part EXCEPT !.functionCall.id = callId] ELSE part)
         IN  IF part.kind = "functionCall"
             THEN WithCallId(IF part.functionCall.id = Undef THEN randomUUID(n)
                             ELSE part.functionCall.id)
             ELSE IF part.kind = "functionResponse"
             THEN OnResponse(part.functionResponse.id)
             ELSE scanParts(Tail(parts), callIds, resolvedCallIds,
                            Append(clonedParts, part), Append(seen, part), n)

\* contents.forEach: lines 183-209
RECURSIVE scanContents(_, _, _, _, _, _)
scanContents(cs, callIds, resolvedCallIds, norm, caller, n) ==
    IF cs = <<>>
    THEN [callIds |-> callIds, resolvedCallIds |-> resolvedCallIds,
          normalized |-> norm, caller |-> caller, uuidCtr |-> n]
    ELSE LET Next(r) ==
                 scanContents(Tail(cs), r.callIds, r.resolvedCallIds,
                              IF Len(r.clonedParts) > 0
                              THEN Append(norm, [Head(cs) EXCEPT !.parts = r.clonedParts])
                              ELSE norm,
                              Append(caller, [Head(cs) EXCEPT !.parts = r.seen]),
                              r.uuidCtr)
         IN  Next(scanParts(Head(cs).parts, callIds, resolvedCallIds, <<>>, <<>>, n))

\* the filter predicate of lines 224-230
survives(part, unresolvedIds) ==
    ~(Truthy(part.functionCall.id) /\ part.functionCall.id \in unresolvedIds)

\* the second pass without the test filtered.length > 0: it keeps emptied turns
RECURSIVE filterUnresolved_keepsEmpty(_, _)
filterUnresolved_keepsEmpty(norm, unresolvedIds) ==
    IF norm = <<>> THEN <<>>
    ELSE <<[Head(norm) EXCEPT
              !.parts = SelectSeq(@, LAMBDA part : survives(part, unresolvedIds))]>>
         \o filterUnresolved_keepsEmpty(Tail(norm), unresolvedIds)

\* the second pass: lines 222-233
RECURSIVE filterUnresolved(_, _)
filterUnresolved(norm, unresolvedIds) ==
    IF norm = <<>> THEN <<>>
    ELSE LET Keep(filtered) ==
                 IF Len(filtered) > 0
                 THEN <<[Head(norm) EXCEPT !.parts = filtered]>>
                 ELSE <<>>
         IN  Keep(SelectSeq(Head(norm).parts,
                            LAMBDA part : survives(part, unresolvedIds)))
             \o filterUnresolved(Tail(norm), unresolvedIds)

\* returns the reconciled conversation, the conversation of the caller afterwards
\* and the UUID count
normalizeToolHistory(cs, n) ==
    LET Finish(r) ==
            [out |-> IF Cardinality(r.callIds) = Cardinality(r.resolvedCallIds)
                     THEN r.normalized
                     ELSE filterUnresolved(r.normalized,
                                           r.callIds \ r.resolvedCallIds),
             caller |-> r.caller,
             uuidCtr |-> r.uuidCtr]
    IN  Finish(scanContents(cs, {}, {}, <<>>, <<>>, n))

\* flushBuffer: lines 249-255
flushBuffer(role, buffer, msgs) ==
    IF Len(Trim(buffer)) > 0
    THEN [messages |-> Append(msgs, Message(role, Trim(buffer))), buffer |-> <<>>]
    ELSE [messages |-> msgs, buffer |-> buffer]

\* the loop over the parts of one content: lines 257-272
RECURSIVE messageParts(_, _, _, _, _)
messageParts(parts, role, buffer, msgs, n) ==
    IF parts = <<>>
    THEN [messages |-> flushBuffer(role, buffer, msgs).messages, uuidCtr |-> n]
    ELSE LET part == Head(parts)
             OnResponse(flushed, formatted) ==
                 messageParts(Tail(parts), role, flushed.buffer,
                              Append(flushed.messages, Message("user", formatted.text)),
                              n + formatted.drawn)
             OnFragment(fragment) ==
                 messageParts(Tail(parts), role,
                              IF fragment # <<>>
                              THEN (IF Len(buffer) = 0 THEN fragment
                                    ELSE buffer \o <<"\n">> \o fragment)
                              ELSE buffer,
                              msgs, n)
         IN  IF part.kind = "functionResponse"
             THEN OnResponse(flushBuffer(role, buffer, msgs),
                             formatToolResult(part.functionResponse, n))
             ELSE OnFragment(partToText(part))

RECURSIVE messageContents(_, _, _)
messageContents(norm, msgs, n) ==
    IF norm = <<>> THEN [messages |-> msgs, uuidCtr |-> n]
    ELSE LET Next(r) == messageContents(Tail(norm), r.messages, r.uuidCtr)
         IN  Next(messageParts(Head(norm).parts, mapRole(Head(norm).role), <<>>, msgs, n))

\* contentsToMessages(request.contents): the messages, what the reconciler
\* returned, and the conversation of the caller afterwards
contentsToMessages(cs, n) ==
    LET Build(h) ==
            LET Result(m) ==
                    [messages |-> m.messages, normalized |-> h.out,
                     caller |-> h.caller, uuidCtr |-> m.uuidCtr]
            IN  Result(messageContents(h.out, <<>>, h.uuidCtr))
    IN  Build(normalizeToolHistory(cs, n))

-----------------------------------------------------------------------------
(* Requests of the Ollama client over a conversation of the caller *)

HistoryCall(id, name) ==
    CallPart([id |-> id, name |-> name, args |-> JObj, isClientInitiated |-> FALSE])

HistoryResponse(id, name) ==
    ResponsePart([id |-> id, name |-> name, response |-> JObj])

\* ids: absent, empty, and two ids a backend gave
HistoryParts ==
    {TextPart(<<"h", "i">>),
     HistoryCall(Undef, <<"run_shell">>), HistoryCall(<<>>, <<"run_shell">>),
     HistoryCall(<<"call-1">>, <<"ping">>), HistoryCall(<<"call-2">>, <<"pong">>),
     HistoryResponse(Undef, <<"run_shell">>), HistoryResponse(<<>>, <<"run_shell">>),
     HistoryResponse(<<"call-1">>, <<"ping">>), HistoryResponse(<<"call-2">>, <<"pong">>)}

\* a turn without parts
NoPart ==
    [kind |-> "none", text |-> Undef, functionCall |-> NoCall,
     functionResponse |-> NoResponse]

\* a conversation is written down part by part; newTurn starts a turn
HistoryItems ==
    {[part |-> p, newTurn |-> b] : p \in HistoryParts, b \in BOOLEAN}
    \cup {[part |-> NoPart, newTurn |-> TRUE]}

RoleOf(part) == IF part.kind = "functionCall" THEN "model" ELSE "user"

RECURSIVE ToConversation(_, _)
ToConversation(items, conv) ==
    IF items = <<>> THEN conv
    ELSE LET item == Head(items) IN
         IF item.part.kind = "none"
         THEN ToConversation(Tail(items), Append(conv, Content("user", <<>>)))
         ELSE IF item.newTurn \/ conv = <<>>
         THEN ToConversation(Tail(items),
                             Append(conv, Content(RoleOf(item.part), <<item.part>>)))
         ELSE ToConversation(Tail(items),
                             [conv EXCEPT ![Len(conv)].parts = Append(@, item.part)])

InitHistory ==
    /\ pc = "idle"
    /\ \E k \in 0..MaxParts :
         \E items \in [1..k -> HistoryItems] :
             contents = ToConversation(items, <<>>)
    /\ original = contents
    /\ normalized = <<>>
    /\ messages = <<>>
    /\ renormalized = <<>>
    /\ yielded = <<>>
    /\ uuidCtr = 0
    /\ ParserIdle
    /\ WireIdle
    /\ CallIdle

\* generateContent up to the fetch: line 350
GenerateContent ==
    /\ pc = "idle"
    /\ \E r \in {contentsToMessages(contents, uuidCtr)} :
           /\ messages' = r.messages
           /\ normalized' = r.normalized
           /\ contents' = r.caller
           /\ uuidCtr' = r.uuidCtr
    /\ pc' = "sent"
    /\ UNCHANGED <<original, renormalized, yielded, parserVars, wireVars, callVars>>

\* generateContentStream up to the fetch: line 434
GenerateContentStream ==
    /\ pc = "idle"
    /\ \E r \in {contentsToMessages(contents, uuidCtr)} :
           /\ messages' = r.messages
           /\ normalized' = r.normalized
           /\ contents' = r.caller
           /\ uuidCtr' = r.uuidCtr
    /\ pc' = "sent-stream"
    /\ UNCHANGED <<original, renormalized, yielded, parserVars, wireVars, callVars>>

\* the reconciler run on its own output
Renormalize ==
    /\ pc \in {"sent", "sent-stream"}
    /\ \E r \in {normalizeToolHistory(normalized, uuidCtr)} :
           /\ renormalized' = r.out
           /\ uuidCtr' = r.uuidCtr
    /\ pc' = "renormalized"
    /\ UNCHANGED <<contents, original, normalized, messages, yielded, parserVars, wireVars, callVars>>

NextHistory == GenerateContent \/ GenerateContentStream \/ Renormalize

SpecHistory == InitHistory /\ [][NextHistory]_vars

Sent == pc \in {"sent", "sent-stream", "renormalized"}

\* positions <<turn, part>> of a conversation
Positions(conv) ==
    {<<i, j>> : i \in 1..Len(conv), j \in 1..MaxParts + 1} \cap
    {q \in (1..Len(conv)) \X (1..MaxParts + 1) : q[2] <= Len(conv[q[1]].parts)}

PartAt(conv, q) == conv[q[1]].parts[q[2]]

CallPositions(conv) == {q \in Positions(conv) : PartAt(conv, q).kind = "functionCall"}

ResponsePositions(conv) ==
    {q \in Positions(conv) : PartAt(conv, q).kind = "functionResponse"}

Before(q1, q2) == q1[1] < q2[1] \/ (q1[1] = q2[1] /\ q1[2] < q2[2])

\* the tool_call at q has a tool_result for its id in conv
Matched(conv, q) ==
    /\ Truthy(PartAt(conv, q).functionCall.id)
    /\ \E r \in ResponsePositions(conv) :
         PartAt(conv, r).functionResponse.id = PartAt(conv, q).functionCall.id

UnmatchedCalls(conv) == {q \in CallPositions(conv) : ~Matched(conv, q)}

CharsOf(msgs) == UNION {{msgs[i].content[k] : k \in 1..Len(msgs[i].content)} : i \in 1..Len(msgs)}

-----------------------------------------------------------------------------
(* Properties of the History Reconciler *)

\* C7: for a conversation with at least one tool_call that has no matching
\* tool_result, the reconciled conversation holds no tool_call without a
\* matching tool_result, and no outbound message carries the name of such a call.
C7_NoUnmatchedCallSent ==
    (Sent /\ UnmatchedCalls(original) # {}) =>
        /\ UnmatchedCalls(normalized) = {}
        /\ \A q \in UnmatchedCalls(original) :
             PartAt(original, q).functionCall.name[1] \notin CharsOf(messages)

\* every tool_result of conv for which ok holds has a tool_call with its id
\* earlier in conv
ResultsReferToEarlierCalls(conv, ok(_)) ==
    \A r \in ResponsePositions(conv) :
        ok(PartAt(conv, r).functionResponse) =>
            \E q \in CallPositions(conv) :
                /\ Before(q, r)
                /\ PartAt(conv, q).functionCall.id = PartAt(conv, r).functionResponse.id

\* every tool_result left by the reconciler goes out as a tool_result block
ResultsAreEncoded ==
    \A r \in ResponsePositions(normalized) :
        \E i \in 1..Len(messages) :
            /\ messages[i].role = "user"
            /\ \E n \in 0..uuidCtr :
                 messages[i].content =
                     formatToolResult(PartAt(normalized, r).functionResponse, n).text

C9_Idempotent ==
    pc = "renormalized" => renormalized = normalized

\* the first run dropped an unmatched tool_call and emptied a turn, and kept
\* something
C9_Witness ==
    /\ pc = "renormalized"
    /\ normalized # <<>>
    /\ Len(normalized) < Len(original)
    /\ Cardinality(CallPositions(normalized)) < Cardinality(CallPositions(original))

\* C10: a request never changes the conversation of the caller: every turn
\* and content block, the id of each tool_call included, stays as it was.
C10_CallerConversationUntouched ==
    contents = original

\* C11: if every tool_call of the conversation has a matching tool_result,
\* the reconciler returns a content-identical copy: the same turns in the
\* same order, each with exactly the same content blocks.
C11_MatchedIsIdenticalCopy ==
    (Sent /\ UnmatchedCalls(original) = {}) => normalized = original

-----------------------------------------------------------------------------
(* Tool calls in the text of an Ollama response.                           *)
(* A character of the text is a one-character string, or one of the        *)
(* symbols "~~~" (three backticks), "T" (the word tool_call), "<T>" and    *)
(* "</T>" (the bracket tags), "P" (the JSON text of an object with the     *)
(* name ping and no arguments).                                            *)

\* the only JSON text of the alphabet that parses to an object with a name
PingPayload == <<"P">>

parseToolCallPayload(payload, n) ==
    IF payload = <<>> THEN [some |-> FALSE, call |-> NoCall]
    ELSE IF Trim(payload) = PingPayload
    THEN [some |-> TRUE,
          call |-> [id |-> randomUUID(n), name |-> <<"ping">>, args |-> JObj,
                    isClientInitiated |-> FALSE]]
    ELSE [some |-> FALSE, call |-> NoCall]

\* String.prototype.indexOf for one character, from position from; 0: not found
RECURSIVE indexOf(_, _, _)
indexOf(s, c, from) ==
    IF from > Len(s) THEN 0
    ELSE IF s[from] = c THEN from
    ELSE indexOf(s, c, from + 1)

startsWith(s, prefix) ==
    /\ Len(s) >= Len(prefix)
    /\ SubSeq(s, 1, Len(prefix)) = prefix

\* content.replace(regex, ...) with a global regex open [\s\S]*? close:
\* out is the text already produced, s the text still to scan
RECURSIVE applyRegex(_, _, _, _, _, _)
applyRegex(s, open, close, n, calls, out) ==
    IF s = <<>> THEN [content |-> out, functionCalls |-> calls, uuidCtr |-> n]
    ELSE LET Found(j) ==
                 LET Replaced(r) ==
                         IF r.some
                         THEN applyRegex(SubSeq(s, j + 1, Len(s)), open, close, n + 1,
                                         Append(calls, r.call), out)
                         ELSE applyRegex(SubSeq(s, j + 1, Len(s)), open, close, n,
                                         calls, out \o SubSeq(s, 1, j))
                 IN  Replaced(parseToolCallPayload(
                                  TrimLeft(SubSeq(s, Len(open) + 1, j - 1)), n))
             At(j) ==
                 IF startsWith(s, open) /\ j # 0 THEN Found(j)
                 ELSE applyRegex(Tail(s), open, close, n, calls, Append(out, Head(s)))
         IN  At(indexOf(s, close, Len(open) + 1))

fencedRegex == [open |-> <<"~~~", "T">>, close |-> "~~~"]
xmlRegex == [open |-> <<"<T>">>, close |-> "</T>"]

\* an extraction that knows the fenced form only
extractToolCalls_fencedOnly(content, n) ==
    LET Result(x) == [text |-> Trim(x.content), functionCalls |-> x.functionCalls,
                      uuidCtr |-> x.uuidCtr]
    IN  Result(applyRegex(content, fencedRegex.open, fencedRegex.close, n,
                          <<>>, <<>>))

extractToolCalls(content, n) ==
    LET Xml(f) == applyRegex(f.content, xmlRegex.open, xmlRegex.close, f.uuidCtr,
                             f.functionCalls, <<>>)
        Result(x) == [text |-> Trim(x.content), functionCalls |-> x.functionCalls,
                      uuidCtr |-> x.uuidCtr]
    IN  Result(Xml(applyRegex(content, fencedRegex.open, fencedRegex.close, n,
                              <<>>, <<>>)))

-----------------------------------------------------------------------------
(* The wire.  A byte is a one-character string (an ASCII byte), one of the *)
(* two bytes "C3", "A9" of a two-byte character, or a symbol that stands   *)
(* for a run of ASCII bytes of the JSON envelope:                          *)
(*   "{c:"    the opening of a frame up to and including the quote that    *)
(*            opens its text content                                      *)
(*   "}"      the quote that closes the content and the closing brackets   *)
(*   "{done}" an Ollama frame with done: true and no done_reason           *)
(*   "{done:filter}" an Ollama frame with done: true and the done_reason   *)
(*            content_filter                                               *)
(*   "{done:length}" an Ollama frame with done: true, the done_reason      *)
(*            length, prompt_eval_count 5 and eval_count 10                *)
(*   "{stop}" an OpenAI chunk whose choice has finish_reason stop          *)
(*   "{tc{"   an OpenAI chunk with the tool-call delta index 0, id call_1, *)
(*            name ping, arguments "{"                                     *)
(*   "D:"     the prefix data:         "[DONE]"  the terminator            *)

\* TextDecoder("utf-8").decode over the bytes: lead is the byte held back
RECURSIVE decodeLoop(_, _, _)
decodeLoop(lead, bytes, out) ==
    IF bytes = <<>> THEN [text |-> out, pending |-> lead]
    ELSE IF lead # <<>>
    THEN (IF Head(bytes) = "A9"
          THEN decodeLoop(<<>>, Tail(bytes), Append(out, "U+E9"))
          ELSE decodeLoop(<<>>, bytes, Append(out, "U+FFFD")))
    ELSE IF Head(bytes) = "C3" THEN decodeLoop(<<"C3">>, Tail(bytes), out)
    ELSE IF Head(bytes) = "A9" THEN decodeLoop(<<>>, Tail(bytes), Append(out, "U+FFFD"))
    ELSE decodeLoop(<<>>, Tail(bytes), Append(out, Head(bytes)))

\* a decoder that keeps no state between calls: every call starts afresh and
\* ends an incomplete character at once
decode_stateless(lead, bytes, stream) ==
    LET Flush(r) ==
            IF r.pending = <<>> THEN r
            ELSE [text |-> Append(r.text, "U+FFFD"), pending |-> <<>>]
    IN  Flush(decodeLoop(<<>>, bytes, <<>>))

\* decoder.decode(value, { stream }): without stream the held byte is flushed
decode(lead, bytes, stream) ==
    LET Flush(r) ==
            IF stream \/ r.pending = <<>> THEN r
            ELSE [text |-> Append(r.text, "U+FFFD"), pending |-> <<>>]
    IN  Flush(decodeLoop(lead, bytes, <<>>))

Structural ==
    {"{c:", "}", "{done}", "{done:filter}", "{done:length}", "{stop}", "{tc{", "D:", "[DONE]", "\n"}

IsContentFrame(line) ==
    /\ Len(line) >= 2
    /\ line[1] = "{c:"
    /\ line[Len(line)] = "}"
    /\ \A i \in 2..(Len(line) - 1) : line[i] \notin Structural

ContentOf(line) == SubSeq(line, 2, Len(line) - 1)

\* a parser that takes a line that is not JSON for text content
parseOllamaLine_lenient(line) ==
    IF line = <<"{done}">>
    THEN [ok |-> TRUE, done |-> TRUE, done_reason |-> Undef, content |-> Undef,
          prompt_eval_count |-> NoCount, eval_count |-> NoCount]
    ELSE IF line = <<"{done:filter}">>
    THEN [ok |-> TRUE, done |-> TRUE, done_reason |-> <<"content_filter">>,
          content |-> Undef, prompt_eval_count |-> NoCount, eval_count |-> NoCount]
    ELSE IF line = <<"{done:length}">>
    THEN [ok |-> TRUE, done |-> TRUE, done_reason |-> <<"length">>,
          content |-> Undef, prompt_eval_count |-> 5, eval_count |-> 10]
    ELSE IF IsContentFrame(line)
    THEN [ok |-> TRUE, done |-> FALSE, done_reason |-> Undef,
          content |-> ContentOf(line), prompt_eval_count |-> NoCount,
          eval_count |-> NoCount]
    ELSE [ok |-> TRUE, done |-> FALSE, done_reason |-> Undef, content |-> line,
          prompt_eval_count |-> NoCount, eval_count |-> NoCount]

\* JSON.parse(line) as OllamaStreamChunk
parseOllamaLine(line) ==
    IF line = <<"{done}">>
    THEN [ok |-> TRUE, done |-> TRUE, done_reason |-> Undef, content |-> Undef,
          prompt_eval_count |-> NoCount, eval_count |-> NoCount]
    ELSE IF line = <<"{done:filter}">>
    THEN [ok |-> TRUE, done |-> TRUE, done_reason |-> <<"content_filter">>,
          content |-> Undef, prompt_eval_count |-> NoCount, eval_count |-> NoCount]
    ELSE IF line = <<"{done:length}">>
    THEN [ok |-> TRUE, done |-> TRUE, done_reason |-> <<"length">>,
          content |-> Undef, prompt_eval_count |-> 5, eval_count |-> 10]
    ELSE IF IsContentFrame(line)
    THEN [ok |-> TRUE, done |-> FALSE, done_reason |-> Undef,
          content |-> ContentOf(line), prompt_eval_count |-> NoCount,
          eval_count |-> NoCount]
    ELSE [ok |-> FALSE, done |-> FALSE, done_reason |-> Undef, content |-> Undef,
          prompt_eval_count |-> NoCount, eval_count |-> NoCount]

responseId == <<"resp-1">>

\* JSON.parse(data) as OpenAIChatCompletionChunk
parseOpenAIData(data) ==
    IF IsContentFrame(data)
    THEN [ok |-> TRUE,
          chunk |-> Chunk(responseId, Undef,
                          <<Choice(StringContent(ContentOf(data)), <<>>, Undef)>>,
                          NoUsage)]
    ELSE IF data = <<"{stop}">>
    THEN [ok |-> TRUE,
          chunk |-> Chunk(responseId, Undef,
                          <<Choice(NoContent, <<>>, <<"stop">>)>>, NoUsage)]
    ELSE IF data = <<"{tc{">>
    THEN [ok |-> TRUE,
          chunk |-> Chunk(responseId, Undef,
                          <<Choice(NoContent,
                                   <<Delta(0, <<"call_1">>, <<"ping">>, <<"{">>)>>,
                                   Undef)>>,
                          NoUsage)]
    ELSE [ok |-> FALSE, chunk |-> Chunk(Undef, Undef, <<>>, NoUsage)]

-----------------------------------------------------------------------------
(* The stream generator of the Ollama client *)

\* request.model || this.defaultModel
targetModel == <<"llama3">>

\* DONE_REASON_TO_FINISH[payload.done_reason ?? 'stop'] ?? FinishReason.STOP
doneReasonToFinish(done_reason) ==
    LET Lookup(key) ==
            IF key = <<"stop">> THEN "STOP"
            ELSE IF key = <<"length">> THEN "MAX_TOKENS"
            ELSE "STOP"
    IN  Lookup(IF done_reason = Undef THEN <<"stop">> ELSE done_reason)

\* usage as set from a done frame: an object also when the counts are absent
DoneUsage(payload) ==
    [present |-> TRUE, promptTokenCount |-> payload.prompt_eval_count,
     candidatesTokenCount |-> payload.eval_count, totalTokenCount |-> NoCount]

\* the inner while loop over the complete lines of the buffer
RECURSIVE ollamaLines(_, _, _, _, _)
ollamaLines(buf, outs, fin, usage, n) ==
    LET At(i) ==
            IF i = 0
            THEN [buffer |-> buf, outs |-> outs, finishReason |-> fin,
                  usage |-> usage, uuidCtr |-> n]
            ELSE LET rest == SubSeq(buf, i + 1, Len(buf))
                     Emit(x) ==
                         LET Yield(parts) ==
                                 IF parts = <<>>
                                 THEN ollamaLines(rest, outs, fin, usage, x.uuidCtr)
                                 ELSE ollamaLines(
                                          rest,
                                          Append(outs,
                                                 Increment(targetModel, Undef, parts,
                                                           IF x.functionCalls # <<>>
                                                           THEN "STOP" ELSE NoReason,
                                                           x.functionCalls, NoMetadata)),
                                          fin, usage, x.uuidCtr)
                         IN  Yield((IF x.text # <<>> THEN <<TextPart(x.text)>> ELSE <<>>)
                                   \o CallParts(x.functionCalls))
                     Handle(payload) ==
                         IF ~payload.ok THEN ollamaLines(rest, outs, fin, usage, n)
                         ELSE IF payload.done
                         THEN ollamaLines(rest, outs,
                                          doneReasonToFinish(payload.done_reason),
                                          DoneUsage(payload), n)
                         ELSE IF payload.content = <<>>
                         THEN ollamaLines(rest, outs, fin, usage, n)
                         ELSE Emit(extractToolCalls(payload.content, n))
                     Line(line) ==
                         IF line = <<>> THEN ollamaLines(rest, outs, fin, usage, n)
                         ELSE Handle(parseOllamaLine(line))
                 IN  Line(Trim(SubSeq(buf, 1, i - 1)))
    IN  At(indexOf(buf, "\n", 1))

\* one iteration of while (true) with done = false: st is the generator state
ollamaRead(st, value) ==
    LET Lines(d) ==
            LET Result(r) ==
                    [buffer |-> r.buffer, pending |-> d.pending,
                     outs |-> st.outs \o r.outs, finishReason |-> r.finishReason,
                     usage |-> r.usage, uuidCtr |-> r.uuidCtr]
            IN  Result(ollamaLines(st.buffer \o d.text, <<>>, st.finishReason,
                                   st.usage, st.uuidCtr))
    IN  Lines(decode(st.pending, value, TRUE))

\* done = true: break, then the final response after the finally block
ollamaEnd(st) ==
    [st EXCEPT !.outs =
        IF st.finishReason # NoReason \/ st.usage.present
        THEN Append(st.outs,
                    Increment(targetModel, Undef, <<>>,
                              IF st.finishReason # NoReason THEN st.finishReason
                              ELSE "STOP",
                              <<>>, st.usage))
        ELSE st.outs]

OllamaStart ==
    [buffer |-> <<>>, pending |-> <<>>, outs |-> <<>>, finishReason |-> NoReason,
     usage |-> NoMetadata, uuidCtr |-> 0]

-----------------------------------------------------------------------------
(* The stream generator of the OpenAI client *)

DATA_PREFIX == <<"D:">>
SSE_TERMINATOR == <<"[DONE]">>

\* processChoice for every choice of a parsed chunk, yields appended to outs
chunkYields(parsed, buffers, lastId, outs) ==
    IF ~parsed.ok
    THEN [buffers |-> buffers, lastResponseId |-> lastId, outs |-> outs]
    ELSE LET Result(r) ==
                 [buffers |-> r.buffers, lastResponseId |-> r.lastResponseId,
                  outs |-> outs \o r.outs]
         IN  Result(processChunk(buffers, lastId, parsed.chunk))

\* const trailing = parser.flushToolCalls(); if (trailing) yield trailing; return
flushAndReturn(buf, buffers, lastId, outs, n) ==
    LET Result(f) ==
            [buffer |-> buf, buffers |-> f.buffers, lastResponseId |-> lastId,
             outs |-> IF f.some THEN Append(outs, f.out) ELSE outs,
             uuidCtr |-> f.uuidCtr, returned |-> TRUE]
    IN  Result(flushToolCalls(buffers, lastId, n))

\* the inner while loop over the complete lines of the buffer
RECURSIVE openAILines(_, _, _, _, _)
openAILines(buf, buffers, lastId, outs, n) ==
    LET At(i) ==
            IF i = 0
            THEN [buffer |-> buf, buffers |-> buffers, lastResponseId |-> lastId,
                  outs |-> outs, uuidCtr |-> n, returned |-> FALSE]
            ELSE LET rest == SubSeq(buf, i + 1, Len(buf))
                     Yielded(r) ==
                         openAILines(rest, r.buffers, r.lastResponseId, r.outs, n)
                     Data(data) ==
                         IF data = <<>>
                         THEN openAILines(rest, buffers, lastId, outs, n)
                         ELSE IF data = SSE_TERMINATOR
                         THEN flushAndReturn(rest, buffers, lastId, outs, n)
                         ELSE Yielded(chunkYields(parseOpenAIData(data), buffers,
                                                  lastId, outs))
                     Line(line) ==
                         IF startsWith(line, DATA_PREFIX)
                         THEN Data(Trim(SubSeq(line, Len(DATA_PREFIX) + 1, Len(line))))
                         ELSE openAILines(rest, buffers, lastId, outs, n)
                 IN  Line(Trim(SubSeq(buf, 1, i - 1)))
    IN  At(indexOf(buf, "\n", 1))

\* the if (done) block: the unterminated rest of the buffer, then the flush
openAIDone(r) ==
    LET Flushed(c) == flushAndReturn(r.buffer, c.buffers, c.lastResponseId, c.outs,
                                     r.uuidCtr)
    IN  IF Trim(r.buffer) # <<>>
        THEN Flushed(chunkYields(parseOpenAIData(Trim(r.buffer)), r.buffers,
                                 r.lastResponseId, r.outs))
        ELSE Flushed(r)

\* one iteration of while (true): st is the generator and parser state
openAIRead(st, value, done) ==
    LET Lines(d) ==
            LET Result(r) ==
                    [(IF done /\ ~r.returned THEN openAIDone(r) ELSE r)
                        EXCEPT !.outs = st.outs \o @] @@ [pending |-> d.pending]
            IN  Result(openAILines(st.buffer \o d.text, st.buffers,
                                   st.lastResponseId, <<>>, st.uuidCtr))
    IN  Lines(decode(st.pending, value, ~done))

OpenAIStart ==
    [buffer |-> <<>>, pending |-> <<>>, buffers |-> <<>>, lastResponseId |-> Undef,
     outs |-> <<>>, uuidCtr |-> 0, returned |-> FALSE]

-----------------------------------------------------------------------------
(* A streamed response read to its end: the transport hands the bytes of   *)
(* the body to reader.read() in pieces of any size.                        *)

OllamaContents ==
    {<<"h">>, <<" ", "i">>, <<"C3", "A9">>,
     <<"~~~", "T", "P", "~~~">>, <<"~~~", "T", "P">>, <<"~~~">>}

OllamaLines ==
    {<<"{c:">> \o c \o <<"}">> : c \in OllamaContents}
    \cup {<<"{done}">>, <<"{done:filter}">>, <<"{done:length}">>, <<>>, <<"h">>}

OpenAIContents == {<<"h">>, <<" ", "i">>, <<"C3", "A9">>}

OpenAILines ==
    {DATA_PREFIX \o <<" ", "{c:">> \o c \o <<"}">> : c \in OpenAIContents}
    \cup {DATA_PREFIX \o <<"{stop}">>, DATA_PREFIX \o <<" ", "{tc{">>,
          DATA_PREFIX \o <<" ">> \o SSE_TERMINATOR, <<>>, <<"{c:", "h", "}">>,
          DATA_PREFIX \o <<" ", "h">>}

LinesOf(a) == IF a = "openai" THEN OpenAILines ELSE OllamaLines

\* the lines joined by newlines; the last one ends with a newline if terminated
RECURSIVE Join(_, _)
Join(lines, terminated) ==
    IF lines = <<>> THEN <<>>
    ELSE IF Len(lines) = 1
    THEN Head(lines) \o (IF terminated THEN <<"\n">> ELSE <<>>)
    ELSE Head(lines) \o <<"\n">> \o Join(Tail(lines), terminated)

\* generateContentStream has returned the generator: the request was sent,
\* the reader acquired, and the body of the generator has not started
WireInit(maxLines) ==
    /\ pc = "created"
    /\ readerLocked = TRUE
    /\ aborted = FALSE
    /\ streams = <<>>
    /\ adapter \in {"openai", "ollama"}
    /\ \E k \in 0..maxLines :
         \E lines \in [1..k -> LinesOf(adapter)] :
             \E terminated \in BOOLEAN :
                 wire = Join(lines, terminated)
    /\ received = 0
    /\ streamBuffer = <<>>
    /\ decoderPending = <<>>
    /\ streamFinishReason = NoReason
    /\ streamUsage = NoMetadata
    /\ toolCallBuffers = <<>>
    /\ lastResponseId = Undef
    /\ yielded = <<>>
    /\ uuidCtr = 0
    /\ nFrames = 0
    /\ slotFragments = [i \in Slots |-> <<>>]
    /\ slotCalls = [i \in Slots |-> <<>>]
    /\ slotSeen = [i \in Slots |-> 0]
    /\ usageSeen = {}
    /\ lastFrame = NoFrame
    /\ HistIdle
    /\ CallIdle

InitWire == WireInit(MaxLines)

OpenAIState ==
    [buffer |-> streamBuffer, pending |-> decoderPending,
     buffers |-> toolCallBuffers, lastResponseId |-> lastResponseId,
     outs |-> <<>>, uuidCtr |-> uuidCtr, returned |-> FALSE]

OllamaState ==
    [buffer |-> streamBuffer, pending |-> decoderPending, outs |-> <<>>,
     finishReason |-> streamFinishReason, usage |-> streamUsage,
     uuidCtr |-> uuidCtr]

\* the pc after an iteration that yielded outs and did not return
AfterYields(outs) == IF outs = <<>> THEN "reading" ELSE "suspended"

\* openAIClient.ts: reader.read() delivers the next k bytes; the read of an
\* aborted fetch rejects instead (ReadError)
OpenAIRead ==
    /\ pc = "reading"
    /\ adapter = "openai"
    /\ ~aborted
    /\ \E k \in 1..(Len(wire) - received) :
         /\ received' = received + k
         /\ \E r \in {openAIRead(OpenAIState,
                                 SubSeq(wire, received + 1, received + k), FALSE)} :
              /\ streamBuffer' = r.buffer
              /\ decoderPending' = r.pending
              /\ toolCallBuffers' = r.buffers
              /\ lastResponseId' = r.lastResponseId
              /\ yielded' = yielded \o r.outs
              /\ uuidCtr' = r.uuidCtr
              /\ pc' = IF r.returned THEN "done" ELSE AfterYields(r.outs)
              /\ readerLocked' = IF r.returned THEN FALSE ELSE readerLocked
    /\ UNCHANGED <<adapter, streams, wire, streamFinishReason, streamUsage, aborted, nFrames,
                   slotFragments, slotCalls, slotSeen, usageSeen, lastFrame,
                   histVars, callVars>>

\* openAIClient.ts: reader.read() reports done
OpenAIEnd ==
    /\ pc = "reading"
    /\ adapter = "openai"
    /\ ~aborted
    /\ received = Len(wire)
    /\ \E r \in {openAIRead(OpenAIState, <<>>, TRUE)} :
         /\ streamBuffer' = r.buffer
         /\ decoderPending' = r.pending
         /\ toolCallBuffers' = r.buffers
         /\ lastResponseId' = r.lastResponseId
         /\ yielded' = yielded \o r.outs
         /\ uuidCtr' = r.uuidCtr
    /\ pc' = "closed"
    /\ readerLocked' = FALSE
    /\ UNCHANGED <<adapter, streams, wire, received, streamFinishReason, streamUsage, aborted,
                   nFrames, slotFragments, slotCalls, slotSeen, usageSeen, lastFrame,
                   histVars, callVars>>

\* Ollama client: reader.read() delivers the next k bytes
OllamaRead ==
    /\ pc = "reading"
    /\ adapter = "ollama"
    /\ \E k \in 1..(Len(wire) - received) :
         /\ received' = received + k
         /\ \E r \in {ollamaRead(OllamaState,
                                 SubSeq(wire, received + 1, received + k))} :
              /\ streamBuffer' = r.buffer
              /\ decoderPending' = r.pending
              /\ streamFinishReason' = r.finishReason
              /\ streamUsage' = r.usage
              /\ yielded' = yielded \o r.outs
              /\ uuidCtr' = r.uuidCtr
              /\ pc' = AfterYields(r.outs)
    /\ UNCHANGED <<adapter, streams, wire, readerLocked, aborted, parserVars, histVars, callVars>>

\* Ollama client: reader.read() reports done
OllamaEnd ==
    /\ pc = "reading"
    /\ adapter = "ollama"
    /\ received = Len(wire)
    /\ yielded' = yielded \o ollamaEnd(OllamaState).outs
    /\ pc' = "closed"
    /\ readerLocked' = FALSE
    /\ UNCHANGED <<adapter, streams, wire, received, streamBuffer, decoderPending,
                   streamFinishReason, streamUsage, aborted, uuidCtr, parserVars,
                   histVars, callVars>>

\* the consumer calls next(): the body starts, or resumes after a yield, and
\* runs up to its next await reader.read()
Pull ==
    /\ pc \in {"created", "suspended"}
    /\ pc' = "reading"
    /\ UNCHANGED <<yielded, uuidCtr, parserVars, histVars, wireVars, callVars>>

\* the consumer calls return() (a break out of for await): a generator
\* suspended at a yield inside try runs its finally block; a generator whose
\* body never started completes without running any of it
ConsumerReturn ==
    /\ pc \in {"created", "suspended"}
    /\ pc' = "returned"
    /\ readerLocked' = IF pc = "created" THEN readerLocked ELSE FALSE
    /\ UNCHANGED <<adapter, streams, wire, received, streamBuffer, decoderPending,
                   streamFinishReason, streamUsage, aborted, yielded, uuidCtr,
                   parserVars, histVars, callVars>>

\* await reader.read() rejects (transport error, or the abort of a fetch that
\* was given the signal): the error leaves through the finally block
ReadError ==
    /\ pc = "reading"
    /\ pc' = "failed"
    /\ readerLocked' = FALSE
    /\ UNCHANGED <<adapter, streams, wire, received, streamBuffer, decoderPending,
                   streamFinishReason, streamUsage, aborted, yielded, uuidCtr,
                   parserVars, histVars, callVars>>

\* the caller aborts the signal it passed in request.config.abortSignal
Abort ==
    /\ pc \in {"created", "reading", "suspended"}
    /\ ~aborted
    /\ aborted' = TRUE
    /\ UNCHANGED <<pc, adapter, streams, wire, received, streamBuffer, decoderPending,
                   streamFinishReason, streamUsage, readerLocked, yielded, uuidCtr,
                   parserVars, histVars, callVars>>

\* a consumer that pulls the response to its end, over a transport that
\* does not fail
NextWire == OpenAIRead \/ OpenAIEnd \/ OllamaRead \/ OllamaEnd \/ Pull

SpecWire == InitWire /\ [][NextWire]_vars

-----------------------------------------------------------------------------
(* What the wire carries, read off the bytes without the stream generators *)

\* the frame of a complete line, as the adapter a understands lines
FrameOf(a, line) ==
    IF a = "ollama" THEN line
    ELSE IF startsWith(line, DATA_PREFIX)
    THEN Trim(SubSeq(line, Len(DATA_PREFIX) + 1, Len(line)))
    ELSE <<>>

\* the text contents of the frames of the newline-terminated lines of text,
\* in order, up to the terminator
RECURSIVE FrameContents(_, _)
FrameContents(a, text) ==
    LET At(i) ==
            IF i = 0 THEN <<>>
            ELSE LET frame == FrameOf(a, Trim(SubSeq(text, 1, i - 1)))
                     rest == SubSeq(text, i + 1, Len(text))
                 IN  IF a = "openai" /\ frame = SSE_TERMINATOR THEN <<>>
                     ELSE IF IsContentFrame(frame)
                     THEN <<ContentOf(frame)>> \o FrameContents(a, rest)
                     ELSE FrameContents(a, rest)
    IN  At(indexOf(text, "\n", 1))

RECURSIVE Flatten(_)
Flatten(seqs) ==
    IF seqs = <<>> THEN <<>> ELSE Head(seqs) \o Flatten(Tail(seqs))

WireContents == FrameContents(adapter, decodeLoop(<<>>, wire, <<>>).text)

FenceSymbols == {"~~~", "T", "P", "<T>", "</T>"}

RECURSIVE PartsText(_)
PartsText(parts) ==
    IF parts = <<>> THEN <<>>
    ELSE (IF Head(parts).kind = "text" THEN Head(parts).text ELSE <<>>)
         \o PartsText(Tail(parts))

RECURSIVE YieldedText(_)
YieldedText(incs) ==
    IF incs = <<>> THEN <<>>
    ELSE PartsText(Head(incs).parts) \o YieldedText(Tail(incs))

\* every line of the body is complete: the body ends with a newline
AllLinesTerminated == wire = <<>> \/ wire[Len(wire)] = "\n"

\* C4: for both adapters, once a response of complete lines without
\* tool-call fences has been read to its end, the text parts of the yielded
\* increments, concatenated in yield order, are the text contents of the
\* frames concatenated in arrival order: nothing dropped, added or reordered.
C4_TextIsConcatenationOfFrames ==
    (/\ Ended
     /\ AllLinesTerminated
     /\ \A i \in 1..Len(wire) : wire[i] \notin FenceSymbols)
        => YieldedText(yielded) = Flatten(WireContents)

NameAndArgs(calls) == [i \in 1..Len(calls) |-> <<calls[i].name, calls[i].args>>]

\* C5: for the Ollama adapter, the tool calls of the streamed response (all
\* increments together) are, by name and arguments, the calls that extraction
\* over the complete response text produces, also when a fenced block is
\* split across frames.
C5_StreamedCallsAreFullTextCalls ==
    (Ended /\ adapter = "ollama")
        => NameAndArgs(AllCalls(yielded)) =
               NameAndArgs(extractToolCalls(Flatten(WireContents), 0).functionCalls)

\* the increments of a body w delivered in one read (and the end of the
\* transport, if closed)
OneRead(a, w, closed) ==
    IF a = "openai"
    THEN LET End(r) == IF closed /\ ~r.returned
                       THEN openAIRead(r, <<>>, TRUE).outs ELSE r.outs
         IN  End(IF w = <<>> THEN OpenAIStart ELSE openAIRead(OpenAIStart, w, FALSE))
    ELSE LET End(r) == IF closed THEN ollamaEnd(r).outs ELSE r.outs
         IN  End(IF w = <<>> THEN OllamaStart ELSE ollamaRead(OllamaStart, w))

\* C6: for both framers the increments yielded depend only on the bytes
\* received, not on how the transport split them into reads: at every point
\* they are the increments of the same bytes delivered in a single read.
C6_ChunkingIndependent ==
    adapter \in {"openai", "ollama"}
        => yielded = OneRead(adapter, SubSeq(wire, 1, received), pc = "closed")

\* a read ended inside a two-byte character and inside a line, after
\* increments were yielded
C6_Witness ==
    /\ pc = "reading"
    /\ decoderPending # <<>>
    /\ streamBuffer # <<>>
    /\ yielded # <<>>

\* the state of the generator for a body w delivered in one read (and the
\* end of the transport, if closed)
RunOf(a, w, closed) ==
    IF a = "openai"
    THEN LET End(r) == IF closed /\ ~r.returned THEN openAIRead(r, <<>>, TRUE) ELSE r
         IN  End(IF w = <<>> THEN OpenAIStart ELSE openAIRead(OpenAIStart, w, FALSE))
    ELSE LET End(r) == IF closed THEN ollamaEnd(r) ELSE r
         IN  End(IF w = <<>> THEN OllamaStart ELSE ollamaRead(OllamaStart, w))

\* a frame of the adapter that is not JSON: a non-empty Ollama line, or the
\* non-empty data of an SSE data line other than the terminator, that is
\* none of the JSON texts of the alphabet
MalformedFrame(a, line) ==
    LET Bad(frame) ==
            /\ frame # <<>>
            /\ ~IsContentFrame(frame)
            /\ frame \notin {<<"{done}">>, <<"{done:filter}">>, <<"{done:length}">>,
                             <<"{stop}">>, <<"{tc{">>, SSE_TERMINATOR}
    IN  Bad(FrameOf(a, Trim(decodeLoop(<<>>, line, <<>>).text)))

\* the bytes w without their complete lines that hold a malformed frame
RECURSIVE WithoutMalformed(_, _)
WithoutMalformed(a, w) ==
    LET At(i) ==
            IF i = 0 THEN w
            ELSE IF MalformedFrame(a, SubSeq(w, 1, i - 1))
            THEN WithoutMalformed(a, SubSeq(w, i + 1, Len(w)))
            ELSE SubSeq(w, 1, i) \o WithoutMalformed(a, SubSeq(w, i + 1, Len(w)))
    IN  At(indexOf(w, "\n", 1))

\* C14: in both framers a frame that fails to parse as JSON is skipped: it
\* yields nothing and raises nothing, and the increments, the accumulator
\* state and the read buffer (while the generator runs) are at every point
\* those of the same bytes without the malformed frames.
C14_MalformedFrameSkipped ==
    adapter \in {"openai", "ollama"} =>
        LET Same(r) ==
                /\ yielded = r.outs
                /\ pc # "done" => streamBuffer = r.buffer
                /\ uuidCtr = r.uuidCtr
                /\ adapter = "openai" =>
                       /\ toolCallBuffers = r.buffers
                       /\ lastResponseId = r.lastResponseId
                /\ adapter = "ollama" =>
                       /\ streamFinishReason = r.finishReason
                       /\ streamUsage = r.usage
        IN  Same(RunOf(adapter, WithoutMalformed(adapter, SubSeq(wire, 1, received)),
                       pc = "closed"))

\* a response whose first line is a malformed frame was read to its end and
\* a later frame yielded an increment
C14_Witness ==
    /\ pc = "closed"
    /\ indexOf(wire, "\n", 1) > 1
    /\ MalformedFrame(adapter, SubSeq(wire, 1, indexOf(wire, "\n", 1) - 1))
    /\ yielded # <<>>

\* the bytes w up to and including the first terminator line
RECURSIVE UpToTerminator(_)
UpToTerminator(w) ==
    LET At(i) ==
            IF i = 0 THEN w
            ELSE IF FrameOf("openai", Trim(decodeLoop(<<>>, SubSeq(w, 1, i - 1),
                                                     <<>>).text)) = SSE_TERMINATOR
            THEN SubSeq(w, 1, i)
            ELSE SubSeq(w, 1, i) \o UpToTerminator(SubSeq(w, i + 1, Len(w)))
    IN  At(indexOf(w, "\n", 1))

\* the bytes w without the lines that do not begin with the data marker;
\* the last line counts whether or not a newline ends it
RECURSIVE DataLinesOnly(_)
DataLinesOnly(w) ==
    LET At(i) ==
            IF i = 0
            THEN (IF startsWith(TrimLeft(w), DATA_PREFIX) THEN w ELSE <<>>)
            ELSE IF startsWith(TrimLeft(SubSeq(w, 1, i - 1)), DATA_PREFIX)
            THEN SubSeq(w, 1, i) \o DataLinesOnly(SubSeq(w, i + 1, Len(w)))
            ELSE DataLinesOnly(SubSeq(w, i + 1, Len(w)))
    IN  At(indexOf(w, "\n", 1))

\* C15: in the SSE framer the terminator ends the response: the residual
\* tool calls are flushed, and the increments are those of the bytes up to
\* the terminator (no later frame yields anything); lines that do not begin
\* with the data marker never yield an increment: the increments are those
\* of the data lines alone.
C15_TerminatorEndsAndOnlyDataLinesYield ==
    adapter = "openai" =>
        /\ pc = "done" =>
               /\ toolCallBuffers = <<>>
               /\ yielded = RunOf("openai", UpToTerminator(SubSeq(wire, 1, received)),
                                  FALSE).outs
        /\ yielded = RunOf("openai", DataLinesOnly(SubSeq(wire, 1, received)),
                           pc = "closed").outs

\* the completion reasons the backend supplied: the done_reason of the done
\* frames among the complete lines of the text
RECURSIVE SuppliedReasons(_)
SuppliedReasons(text) ==
    LET At(i) ==
            IF i = 0 THEN {}
            ELSE (IF Trim(SubSeq(text, 1, i - 1)) = <<"{done:filter}">>
                  THEN {<<"content_filter">>}
                  ELSE IF Trim(SubSeq(text, 1, i - 1)) = <<"{done:length}">>
                  THEN {<<"length">>} ELSE {})
                 \cup SuppliedReasons(SubSeq(text, i + 1, Len(text)))
    IN  At(indexOf(text, "\n", 1))

\* C18: the Ollama adapter maps the completion reason of the backend with
\* the table of the OpenAI adapter (stop STOP, length MAX_TOKENS,
\* content_filter SAFETY, any other non-empty reason OTHER), and an increment
\* carries a finish reason only when the backend supplied a completion
\* reason.
C18_OllamaFinishReasonIsTable ==
    adapter = "ollama" =>
        \A i \in 1..Len(yielded) :
            yielded[i].finishReason \in
                {NoReason} \cup {FinishTable(r) : r \in SuppliedReasons(wire)}

\* C19: every increment of either adapter carries a non-empty response
\* identifier and a non-empty model name; the frames of these bodies carry
\* no model, so the name is the configured model of the client.
C19_IncrementHasIdAndModel ==
    \A i \in 1..Len(yielded) :
        /\ Truthy(yielded[i].responseId)
        /\ Truthy(yielded[i].modelVersion)
        /\ adapter = "openai" => yielded[i].modelVersion = fallbackModel
        /\ adapter = "ollama" => yielded[i].modelVersion = targetModel

-----------------------------------------------------------------------------
(* Release of the reader and cancellation: the same responses with a       *)
(* consumer that may stop early, a caller that may abort, and reads that   *)
(* may fail.                                                               *)

InitCancel == WireInit(MaxCancelLines)

NextCancel == NextWire \/ ConsumerReturn \/ ReadError \/ Abort

SpecCancel == InitCancel /\ [][NextCancel]_vars

\* the generator has completed: exhausted, terminated, failed or returned
Finished == pc \in {"done", "closed", "failed", "returned"}

\* C12: for every streaming response of either adapter the reader acquired
\* for it is released on every exit path (exhaustion, terminator, read error,
\* cancellation by the consumer): no finished response holds its reader.
C12_ReaderReleasedOnEveryExit ==
    Finished => ~readerLocked

\* C13: the cancellation signal of the request reaches the network call of
\* both adapters: once the caller has aborted, the body read is torn down
\* and no further increment is produced.
C13_NoIncrementAfterAbort ==
    [][aborted => yielded' = yielded]_vars

-----------------------------------------------------------------------------
(* Increments per frame of the OpenAI stream parser *)

\* the text of the items of a content list; with images, an image reference
\* counts as the text of its placeholder
RECURSIVE ItemsText(_, _)
ItemsText(items, images) ==
    IF items = <<>> THEN <<>>
    ELSE LET item == Head(items)
         IN  (IF item.type \in {"text", "input_text"} /\ Truthy(item.text)
              THEN item.text
              ELSE IF images /\ item.type = "image_url" /\ Truthy(item.url)
              THEN <<"[Image content: ">> \o item.url \o <<"]">>
              ELSE <<>>) \o ItemsText(Tail(items), images)

\* the text a choice carries on the wire
ChoiceText(choice, images) ==
    IF choice.content.form = "string" THEN choice.content.str
    ELSE IF choice.content.form = "array" THEN ItemsText(choice.content.items, images)
    ELSE <<>>

\* the choice carries text, a finish reason that maps to one, or usage
Carries(choice, chunk, images) ==
    \/ ChoiceText(choice, images) # <<>>
    \/ FinishTable(choice.finish_reason) # NoReason
    \/ chunk.usage.present

\* the increments of the last frame, against what its choices carry
IncrementsMatchChoices(images) ==
    LET chunk == lastFrame.chunk
        outs == lastFrame.outs
        Plain(cs) == \A k \in 1..Len(cs) : cs[k].tool_calls = <<>>
        Completes(choice) ==
            captureToolCalls(lastFrame.before, choice.tool_calls).completed # <<>>
    IN  /\ (lastFrame.kind = "data" /\ Plain(chunk.choices)) =>
               Len(outs) = Cardinality({k \in 1..Len(chunk.choices) :
                                            Carries(chunk.choices[k], chunk, images)})
        /\ (lastFrame.kind = "data" /\ Len(chunk.choices) = 1) =>
               /\ Len(outs) <= 1
               /\ Len(outs) = 1 <=> (\/ Carries(chunk.choices[1], chunk, images)
                                     \/ Completes(chunk.choices[1]))
               /\ outs # <<>> =>
                      /\ PartsText(outs[1].parts) = ChoiceText(chunk.choices[1], images)
                      /\ outs[1].finishReason =
                             FinishTable(chunk.choices[1].finish_reason)
                      /\ outs[1].usageMetadata.present = chunk.usage.present
                      /\ outs[1].usageMetadata.totalTokenCount =
                             chunk.usage.total_tokens
        /\ lastFrame.kind = "end" =>
               /\ Len(outs) <= 1
               /\ outs # <<>> => lastFrame.before # <<>>

\* C20 as stated: each choice of a data frame yields exactly one increment if
\* it carries text, a completed tool call, a mapped finish reason or usage,
\* and none otherwise; the terminator yields an increment only if tool-call
\* slots were still open.
C20_OneIncrementPerCarryingChoice == IncrementsMatchChoices(FALSE)

\* C20 (amended): each choice of a data frame yields exactly one increment if
\* it carries text, an image reference (turned into a text placeholder), a
\* completed tool call, a mapped finish reason or usage, and none otherwise;
\* the terminator yields an increment only if tool-call slots were still open.
C20_OneIncrementPerChoiceWithPart == IncrementsMatchChoices(TRUE)

\* the frames of the streaming test, text Hello, then finish stop with usage,
\* then the terminator, yielded exactly two increments
C20_Witness ==
    /\ pc = "done"
    /\ nFrames = 2
    /\ lastFrame.kind = "end"
    /\ lastFrame.outs = <<>>
    /\ Len(yielded) = 2
    /\ PartsText(yielded[1].parts) = <<"H", "e", "l", "l", "o">>
    /\ yielded[2].finishReason = "STOP"
    /\ yielded[2].usageMetadata.totalTokenCount = 11

-----------------------------------------------------------------------------
(* The final increment of an Ollama stream *)

\* the lines of the bytes w, the last one with or without its newline
RECURSIVE LinesOfBytes(_)
LinesOfBytes(w) ==
    LET At(i) ==
            IF i = 0 THEN (IF w = <<>> THEN <<>> ELSE <<w>>)
            ELSE <<SubSeq(w, 1, i - 1)>> \o LinesOfBytes(SubSeq(w, i + 1, Len(w)))
    IN  At(indexOf(w, "\n", 1))

\* the frames flagged done among the lines, in order
DoneFrames(lines) ==
    SelectSeq(lines, LAMBDA l : l \in {<<"{done}">>, <<"{done:filter}">>,
                                        <<"{done:length}">>})

\* the increments without parts: the final increments
FinalIncrements == {i \in 1..Len(yielded) : yielded[i].parts = <<>>}

\* the final increment is the only one, comes last, and carries the mapped
\* reason and the counters of the done frame
FinalIncrementFor(frame) ==
    LET payload == parseOllamaLine(frame)
        final == yielded[Len(yielded)]
    IN  /\ FinalIncrements = {Len(yielded)}
        /\ final.finishReason = doneReasonToFinish(payload.done_reason)
        /\ final.usageMetadata.present
        /\ final.usageMetadata.promptTokenCount = payload.prompt_eval_count
        /\ final.usageMetadata.candidatesTokenCount = payload.eval_count

\* C21: in an Ollama stream read to its end, when a frame flagged done has
\* been received exactly one final increment is yielded, it carries the
\* mapped finish reason and the usage counters of the frame, and it is the
\* last increment; when no done frame was received there is no final
\* increment.
C21_FinalIncrementIffDoneFrame ==
    (adapter = "ollama" /\ pc = "closed") =>
        LET dones == DoneFrames(LinesOfBytes(wire))
        IN  IF dones = <<>> THEN FinalIncrements = {}
            ELSE FinalIncrementFor(dones[Len(dones)])

-----------------------------------------------------------------------------
(* generateContent of the OpenAI client: the response.  A chat completion  *)
(* has choices; the message of a choice has content and tool_calls.        *)

\* an entry of message.tool_calls; isNull marks a null entry of the list
WireCall(id, name, arguments) ==
    [isNull |-> FALSE, id |-> id, name |-> name, arguments |-> arguments]

NullWireCall == [isNull |-> TRUE, id |-> Undef, name |-> Undef, arguments |-> Undef]

Completion(id, model, choices, usage) ==
    [id |-> id, model |-> model, choices |-> choices, usage |-> usage]

\* a conversion that names every call tool_call
toFunctionCall_unnamed(call, n) ==
    IF call.isNull THEN [some |-> FALSE, call |-> NoCall, drawn |-> 0]
    ELSE LET Args(parsed) ==
                 IF ~JNullish(parsed) THEN parsed
                 ELSE IF Truthy(call.arguments) THEN JRaw(call.arguments)
                 ELSE JObj
         IN  [some |-> TRUE,
              call |-> [id |-> IF call.id = Undef THEN randomUUID(n) ELSE call.id,
                        name |-> <<"tool_call">>,
                        args |-> Args(safeJsonParse(call.arguments)),
                        isClientInitiated |-> FALSE],
              drawn |-> IF call.id = Undef THEN 1 ELSE 0]

toFunctionCall(call, n) ==
    IF call.isNull THEN [some |-> FALSE, call |-> NoCall, drawn |-> 0]
    ELSE LET Args(parsed) ==
                 IF ~JNullish(parsed) THEN parsed
                 ELSE IF Truthy(call.arguments) THEN JRaw(call.arguments)
                 ELSE JObj
         IN  [some |-> TRUE,
              call |-> [id |-> IF call.id = Undef THEN randomUUID(n) ELSE call.id,
                        name |-> IF call.name = Undef THEN <<"tool_call">>
                                 ELSE call.name,
                        args |-> Args(safeJsonParse(call.arguments)),
                        isClientInitiated |-> FALSE],
              drawn |-> IF call.id = Undef THEN 1 ELSE 0]

\* (choice.message?.tool_calls ?? []).map(toFunctionCall).filter(call => !!call)
RECURSIVE mapToolCalls(_, _, _)
mapToolCalls(calls, n, out) ==
    IF calls = <<>> THEN [calls |-> out, uuidCtr |-> n]
    ELSE LET Next(r) ==
                 mapToolCalls(Tail(calls), n + r.drawn,
                              IF r.some THEN Append(out, r.call) ELSE out)
         IN  Next(toFunctionCall(Head(calls), n))

Candidate(parts, finishReason) == [parts |-> parts, finishReason |-> finishReason]

\* functionCalls is set on the result only when hasFunctionCalls
Result(model, id, candidates, usageMetadata, functionCalls) ==
    [modelVersion |-> model, responseId |-> id,
     candidates |-> candidates, usageMetadata |-> usageMetadata,
     hasFunctionCalls |-> functionCalls # <<>>, functionCalls |-> functionCalls]

NoResult == Result(Undef, Undef, <<>>, NoMetadata, <<>>)

\* the loop over response.choices
RECURSIVE responseChoices(_, _, _, _)
responseChoices(choices, candidates, functionCalls, n) ==
    IF choices = <<>>
    THEN [candidates |-> candidates, functionCalls |-> functionCalls, uuidCtr |-> n]
    ELSE LET choice == Head(choices)
             Next(parts, r) ==
                 responseChoices(
                     Tail(choices),
                     Append(candidates,
                            Candidate(parts \o CallParts(r.calls),
                                      mapFinishReason(choice.finish_reason))),
                     functionCalls \o r.calls, r.uuidCtr)
         IN  Next(openAIContentToGeminiParts(choice.content),
                  mapToolCalls(choice.tool_calls, n, <<>>))

fromChatCompletionResponse(response, defaultModel, n) ==
    LET Build(r) ==
            [result |-> Result(IF Truthy(response.model) THEN response.model
                               ELSE defaultModel,
                               response.id, r.candidates,
                               usageToMetadata(response.usage), r.functionCalls),
             uuidCtr |-> r.uuidCtr]
    IN  Build(responseChoices(response.choices, <<>>, <<>>, n))

-----------------------------------------------------------------------------
(* generateContent of the OpenAI client: the request *)

DEFAULT_OPENAI_MODEL == <<"gpt-4o-mini">>

\* this.defaultModel of the OpenAI client; OPENAI_MODEL is not set
openAIDefaultModel(localModel) ==
    IF Truthy(localModel) THEN localModel ELSE DEFAULT_OPENAI_MODEL

\* requestedModel.toLowerCase().includes('gemini'), over the names of the model
includesGemini(name) == name \in {<<"gemini-2.0-flash">>, <<"Gemini-Pro">>}

resolveModel(localModel, requestedModel) ==
    IF Truthy(localModel) THEN localModel
    ELSE IF Truthy(requestedModel) /\ ~includesGemini(requestedModel)
    THEN requestedModel
    ELSE openAIDefaultModel(localModel)

\* mapRole of the OpenAI client
openAIMapRole(role) ==
    IF role = "" THEN "user"
    ELSE IF toLowerCase(role) \in {"model", "assistant"} THEN "assistant"
    ELSE IF toLowerCase(role) = "system" THEN "system"
    ELSE IF toLowerCase(role) = "tool" THEN "tool"
    ELSE "user"

\* an OpenAIChatMessage; an absent member is <<>> (tool_calls) or Undef
ChatMessage(role, content, tool_calls, tool_call_id, name) ==
    [role |-> role, content |-> content, tool_calls |-> tool_calls,
     tool_call_id |-> tool_call_id, name |-> name]

\* of the parts of the model only a non-empty text converts to a content part
partToOpenAIContentParts(part) ==
    IF part.kind = "text" /\ part.text # <<>>
    THEN <<ContentItem("text", part.text, Undef)>>
    ELSE <<>>

\* toolCallIdQueue is modelled as the list of <<name, id>> in arrival order
consumeToolCallId(queue, name) ==
    LET hits == {i \in 1..Len(queue) : queue[i][1] = name}
        First(i) ==
            [id |-> queue[i][2],
             queue |-> SubSeq(queue, 1, i - 1) \o SubSeq(queue, i + 1, Len(queue))]
    IN  IF ~Truthy(name) \/ hits = {} THEN [id |-> Undef, queue |-> queue]
        ELSE First(CHOOSE i \in hits : \A j \in hits : i <= j)

fromFunctionCallPart(fnCall, queue, n) ==
    LET With(id) ==
            [toolCall |-> WireCall(id,
                                   IF fnCall.name = Undef THEN <<"tool_call">>
                                   ELSE fnCall.name,
                                   JSONstringify(IF JNullish(fnCall.args) THEN JObj
                                                 ELSE fnCall.args)),
             queue |-> IF Truthy(fnCall.name) THEN Append(queue, <<fnCall.name, id>>)
                       ELSE queue,
             uuidCtr |-> IF fnCall.id = Undef THEN n + 1 ELSE n]
    IN  With(IF fnCall.id = Undef THEN randomUUID(n) ELSE fnCall.id)

\* stringifyUnknown of the response objects of the model prints no line break
toToolMessage(functionResponse, queue, n) ==
    LET With(c) ==
            LET id == IF Truthy(functionResponse.id) THEN functionResponse.id
                      ELSE IF Truthy(c.id) THEN c.id ELSE randomUUID(n)
            IN  [message |-> ChatMessage(
                                 "tool",
                                 StringContent(JSONstringify(
                                     IF JNullish(functionResponse.response) THEN JObj
                                     ELSE functionResponse.response)),
                                 <<>>, id, functionResponse.name),
                 queue |-> IF Truthy(functionResponse.id) THEN queue ELSE c.queue,
                 uuidCtr |-> IF Truthy(functionResponse.id) \/ Truthy(c.id)
                             THEN n ELSE n + 1]
    IN  With(consumeToolCallId(queue, functionResponse.name))

\* the loop over content.parts in pushContent
RECURSIVE pushParts(_, _, _, _, _, _)
pushParts(parts, msgs, textParts, toolCalls, queue, n) ==
    IF parts = <<>>
    THEN [messages |-> msgs, textParts |-> textParts, toolCalls |-> toolCalls,
          queue |-> queue, uuidCtr |-> n]
    ELSE LET part == Head(parts)
             OnResponse(r) ==
                 pushParts(Tail(parts), Append(msgs, r.message), textParts, toolCalls,
                           r.queue, r.uuidCtr)
             OnCall(r) ==
                 pushParts(Tail(parts), msgs, textParts, Append(toolCalls, r.toolCall),
                           r.queue, r.uuidCtr)
         IN  IF part.kind = "functionResponse"
             THEN OnResponse(toToolMessage(part.functionResponse, queue, n))
             ELSE IF part.kind = "functionCall"
             THEN OnCall(fromFunctionCallPart(part.functionCall, queue, n))
             ELSE pushParts(Tail(parts), msgs,
                            textParts \o partToOpenAIContentParts(part), toolCalls,
                            queue, n)

pushContent(content, msgs, queue, n) ==
    LET role == openAIMapRole(content.role)
        After(r) ==
            [messages |->
                 IF r.textParts = <<>> /\ r.toolCalls = <<>> THEN r.messages
                 ELSE Append(r.messages,
                             ChatMessage(IF role \in {"system", "assistant"} THEN role
                                         ELSE "user",
                                         IF r.textParts # <<>>
                                         THEN ArrayContent(r.textParts)
                                         ELSE StringContent(<<>>),
                                         r.toolCalls, Undef, Undef)),
             queue |-> r.queue, uuidCtr |-> r.uuidCtr]
    IN  IF role = "tool" THEN [messages |-> msgs, queue |-> queue, uuidCtr |-> n]
        ELSE After(pushParts(content.parts, msgs, <<>>, <<>>, queue, n))

RECURSIVE pushContents(_, _, _, _)
pushContents(cs, msgs, queue, n) ==
    IF cs = <<>> THEN [messages |-> msgs, uuidCtr |-> n]
    ELSE LET Next(r) == pushContents(Tail(cs), r.messages, r.queue, r.uuidCtr)
         IN  Next(pushContent(Head(cs), msgs, queue, n))

\* a request: the model hint, config.systemInstruction (a string or absent),
\* whether config.tools declares a function, and the conversation
Request(model, systemInstruction, tools, cs) ==
    [model |-> model, systemInstruction |-> systemInstruction, tools |-> tools,
     contents |-> cs]

buildMessages(request, n) ==
    pushContents(request.contents,
                 IF Truthy(request.systemInstruction)
                 THEN <<ChatMessage("system", StringContent(request.systemInstruction),
                                    <<>>, Undef, Undef)>>
                 ELSE <<>>,
                 <<>>, n)

Payload(model, msgs) == [model |-> model, messages |-> msgs]

\* throws when there is no message; otherwise the payload
buildChatCompletionRequest(localModel, request, n) ==
    LET With(m) ==
            IF Len(m.messages) = 0
            THEN [error |-> "no messages provided", payload |-> Payload(Undef, <<>>),
                  uuidCtr |-> m.uuidCtr]
            ELSE [error |-> "none",
                  payload |-> Payload(resolveModel(localModel, request.model),
                                      m.messages),
                  uuidCtr |-> m.uuidCtr]
    IN  With(buildMessages(request, n))

-----------------------------------------------------------------------------
(* generateContent of the Ollama client *)

\* this.defaultModel of the Ollama client
ollamaDefaultModel(localModel) ==
    IF Truthy(localModel) THEN localModel ELSE <<"llama3">>

\* const targetModel = request.model || this.defaultModel
ollamaTargetModel(localModel, requestedModel) ==
    IF Truthy(requestedModel) THEN requestedModel ELSE ollamaDefaultModel(localModel)

\* buildToolPrompt: the instructions for the declared tools, one character here
toolPrompt == <<"TOOLS">>

\* buildSystemPrompt: Undef when there is neither instruction nor tool
buildSystemPrompt(instruction, tools) ==
    LET base == IF Truthy(instruction) THEN Trim(instruction) ELSE <<>>
    IN  IF base # <<>> /\ tools THEN base \o <<"\n", "\n">> \o toolPrompt
        ELSE IF base # <<>> THEN base
        ELSE IF tools THEN toolPrompt
        ELSE Undef

\* generateContent up to the fetch: the body
ollamaBody(localModel, request, n) ==
    LET With(m, systemPrompt) ==
            [payload |-> Payload(ollamaTargetModel(localModel, request.model),
                                 IF systemPrompt # Undef
                                 THEN <<Message("system", systemPrompt)>> \o m.messages
                                 ELSE m.messages),
             uuidCtr |-> m.uuidCtr]
    IN  With(contentsToMessages(request.contents, n),
             buildSystemPrompt(request.systemInstruction, request.tools))

\* the JSON body of the answer of /api/chat
OllamaReply(content, prompt_eval_count, eval_count) ==
    [content |-> content, prompt_eval_count |-> prompt_eval_count,
     eval_count |-> eval_count]

\* generateContent after the fetch
ollamaResult(model, data, n) ==
    LET With(x) ==
            LET parts == (IF x.text # <<>> THEN <<TextPart(x.text)>> ELSE <<>>)
                         \o CallParts(x.functionCalls)
            IN  [result |->
                     Result(model, Undef,
                            <<Candidate(IF parts # <<>> THEN parts
                                        ELSE <<TextPart(<<>>)>>, NoReason)>>,
                            IF data.prompt_eval_count # NoCount
                               \/ data.eval_count # NoCount
                            THEN [present |-> TRUE,
                                  promptTokenCount |-> data.prompt_eval_count,
                                  candidatesTokenCount |-> data.eval_count,
                                  totalTokenCount |-> NoCount]
                            ELSE NoMetadata,
                            x.functionCalls),
                 uuidCtr |-> x.uuidCtr]
    IN  With(extractToolCalls(IF data.content = Undef THEN <<>> ELSE data.content, n))

-----------------------------------------------------------------------------
(* The transport of both clients: one fetch per call, and the Error thrown *)
(* for a response that is not ok.  A message is a string; a template       *)
(* literal's fixed pieces and the status are one character each.           *)

\* the Response fetch resolved with: ok is status in 200..299; message is
\* errorBody.error.message of the JSON body (absent when the body is not
\* JSON or holds none); hasBody is whether response.body is set
HttpResponse(status, statusText, message, hasBody) ==
    [ok |-> status \in 200..299, status |-> status, statusText |-> statusText,
     message |-> message, hasBody |-> hasBody]

NoHttpResponse == [ok |-> FALSE, status |-> 0, statusText |-> <<>>,
                   message |-> Undef, hasBody |-> FALSE]

\* getErrorMessage of the TypeError fetch rejects with
fetchFailed == <<"fetch failed">>

\* OpenAIClient.postJson, catch branch: the Error thrown when fetch rejects
postJsonRejected == <<"OpenAI request failed: ">> \o fetchFailed

\* OpenAIClient.postJson, !response.ok branch: the Error thrown
postJsonError(response) ==
    <<"OpenAI request failed: ">>
    \o (IF Truthy(response.message) THEN response.message
        ELSE <<ToString(response.status), " ">> \o response.statusText)

\* OllamaClient.generateContent and generateContentStream: the Error thrown
\* for a response that is not ok (or, streaming, has no body)
ollamaError(stream, response) ==
    <<IF stream THEN "Ollama chat stream failed (" ELSE "Ollama chat request failed (",
      ToString(response.status), "): ">> \o response.statusText

\* OpenAIClient.generateContentStream: the Error thrown for a missing body
openAINoBody == <<"OpenAI streaming response had no body.">>

\* OpenAIClient.buildChatCompletionRequest: the Error thrown for no message
noMessagesProvided == <<"Unable to build OpenAI request: no messages provided.">>

\* embedContent of either client: the Error thrown
embedError(client) ==
    IF client = "openai"
    THEN <<"Embeddings are not supported for OpenAI-compatible providers yet.">>
    ELSE <<"Embeddings are not supported for Ollama providers.">>

-----------------------------------------------------------------------------
(* One generateContent call of either client, from the request to the     *)
(* mapped response.                                                        *)

MaxTurns == 2

\* the turns a conversation is made of
CallTurns ==
    {Content("user", <<TextPart(<<"h", "i">>)>>),
     Content("model", <<TextPart(<<" ", "i">>)>>),
     Content("user", <<TextPart(<<"a">>), TextPart(<<"b">>)>>),
     Content("user", <<TextPart(<<>>)>>),
     Content("user", <<>>),
     Content("model", <<HistoryCall(<<"call-1">>, <<"ping">>)>>),
     Content("user", <<HistoryResponse(<<"call-1">>, <<"ping">>)>>),
     Content("user", <<HistoryResponse(Undef, <<"ping">>)>>),
     Content("tool", <<HistoryResponse(<<"call-1">>, <<"ping">>)>>)}

ModelHints == {Undef, <<"gemini-2.0-flash">>, <<"mistral">>}

CallRequests ==
    {Request(m, i, t, cs) :
        m \in ModelHints, i \in {Undef, <<"s">>}, t \in BOOLEAN,
        cs \in UNION {[1..k -> CallTurns] : k \in 0..MaxTurns}}

\* the choices of the answers of an OpenAI backend; the first one is the
\* choice of the test of generateContent
CompletionChoices ==
    {Choice(ArrayContent(<<ContentItem("text", <<"H", "i", "!">>, Undef)>>),
            <<WireCall(<<"call_1">>, <<"ping">>, <<"{", "}">>)>>, <<"stop">>),
     Choice(StringContent(<<" ", "i">>), <<>>, Undef),
     Choice(ArrayContent(<<ContentItem("text", <<"a">>, Undef),
                           ContentItem("text", <<"b">>, Undef)>>),
            <<WireCall(<<"call_1">>, <<"ping">>, <<"{", "}">>),
              WireCall(Undef, <<"pong">>, <<"1">>)>>, <<"tool_calls">>),
     Choice(NoContent, <<NullWireCall, WireCall(<<"call_2">>, Undef, <<"x">>)>>,
            <<"stop">>),
     Choice(ArrayContent(<<ContentItem("text", <<>>, Undef),
                           ContentItem("text", <<"a">>, Undef)>>), <<>>, <<"stop">>),
     Choice(ArrayContent(<<ContentItem("image_url", Undef, <<"u">>)>>), <<>>,
            <<"stop">>)}

Completions ==
    {Completion(<<"resp_123">>, m, cs, Usage(10, 4, 14)) :
        m \in {Undef, <<"gpt-4o-mini">>},
        cs \in {<<>>} \cup {<<c>> : c \in CompletionChoices}}
    \cup {Completion(<<"resp_123">>, <<"gpt-4o-mini">>, <<c, d>>, NoUsage) :
              c \in CompletionChoices, d \in CompletionChoices}

OllamaReplies ==
    {OllamaReply(c, p, e) :
        c \in {Undef, <<"h", "i">>, <<" ", "i">>, <<"~~~", "T", "P", "~~~">>,
               <<"h", "<T>", "P", "</T>">>},
        p \in {NoCount, 5}, e \in {NoCount, 10}}

InitCall ==
    /\ pc = "idle"
    /\ callClient \in {"openai", "ollama"}
    /\ configuredModel \in {Undef, <<"local-model">>}
    /\ callRequest \in CallRequests
    /\ callPayload = Payload(Undef, <<>>)
    /\ callError = "none"
    /\ fetchCount = 0
    /\ callReply = <<>>
    /\ callResult = NoResult
    /\ replySegments = <<>>
    /\ callStream = FALSE
    /\ httpResponse = NoHttpResponse
    /\ errorText = <<>>
    /\ totalTokens = NoCount
    /\ yielded = <<>>
    /\ uuidCtr = 0
    /\ ParserIdle
    /\ HistIdle
    /\ WireIdle

\* the responses of a backend
OkResponses ==
    {HttpResponse(200, <<"OK">>, Undef, TRUE),
     HttpResponse(200, <<"OK">>, Undef, FALSE)}

ErrorResponses ==
    {HttpResponse(401, <<"Unauthorized">>, <<"bad key">>, TRUE),
     HttpResponse(500, <<"Internal Server Error">>, Undef, TRUE),
     HttpResponse(404, <<"Not Found">>, <<>>, FALSE)}

\* OpenAIClient.generateContent and generateContentStream up to the fetch of
\* postJson: lines 476-485, 494-503 and 1066-1072
OpenAIRequest ==
    /\ pc = "idle"
    /\ callClient = "openai"
    /\ callStream' \in BOOLEAN
    /\ \E r \in {buildChatCompletionRequest(configuredModel, callRequest, uuidCtr)} :
           /\ callPayload' = r.payload
           /\ callError' = r.error
           /\ errorText' = IF r.error = "none" THEN <<>> ELSE noMessagesProvided
           /\ uuidCtr' = r.uuidCtr
           /\ fetchCount' = IF r.error = "none" THEN fetchCount + 1 ELSE fetchCount
           /\ pc' = IF r.error = "none" THEN "sent" ELSE "failed"
    /\ UNCHANGED <<callClient, configuredModel, callRequest, callReply, callResult,
                   replySegments, httpResponse, totalTokens, yielded, parserVars,
                   histVars, wireVars>>

\* OpenAIClient.generateContent after postJson: lines 486-487
OpenAIResponse ==
    /\ pc = "sent"
    /\ callClient = "openai"
    /\ ~callStream
    /\ httpResponse' = HttpResponse(200, <<"OK">>, Undef, TRUE)
    /\ \E body \in Completions :
         \E r \in {fromChatCompletionResponse(
                       body, openAIDefaultModel(configuredModel), uuidCtr)} :
             /\ callReply' = body
             /\ callResult' = r.result
             /\ uuidCtr' = r.uuidCtr
    /\ pc' = "done"
    /\ UNCHANGED <<callClient, configuredModel, callRequest, callPayload, callError,
                   fetchCount, replySegments, callStream, errorText, totalTokens,
                   yielded, parserVars, histVars, wireVars>>

\* OllamaClient.generateContent and generateContentStream up to the fetch:
\* part_001 lines 349-380 and 433-464
OllamaRequest ==
    /\ pc = "idle"
    /\ callClient = "ollama"
    /\ callStream' \in BOOLEAN
    /\ \E r \in {ollamaBody(configuredModel, callRequest, uuidCtr)} :
           /\ callPayload' = r.payload
           /\ uuidCtr' = r.uuidCtr
    /\ fetchCount' = fetchCount + 1
    /\ pc' = "sent"
    /\ UNCHANGED <<callClient, configuredModel, callRequest, callError, callReply,
                   callResult, replySegments, httpResponse, errorText, totalTokens,
                   yielded, parserVars, histVars, wireVars>>

\* OllamaClient.generateContent after the fetch: part_001 lines 388-426
OllamaResponse ==
    /\ pc = "sent"
    /\ callClient = "ollama"
    /\ ~callStream
    /\ httpResponse' = HttpResponse(200, <<"OK">>, Undef, TRUE)
    /\ \E data \in OllamaReplies :
         \E r \in {ollamaResult(callPayload.model, data, uuidCtr)} :
             /\ callReply' = data
             /\ callResult' = r.result
             /\ uuidCtr' = r.uuidCtr
    /\ pc' = "done"
    /\ UNCHANGED <<callClient, configuredModel, callRequest, callPayload, callError,
                   fetchCount, replySegments, callStream, errorText, totalTokens,
                   yielded, parserVars, histVars, wireVars>>

\* fetch rejects (network-level failure) and, wrongly, is called once more
FetchRejects_retries ==
    /\ pc = "sent"
    /\ callError' = "fetch failed"
    /\ errorText' = IF callClient = "openai" THEN postJsonRejected ELSE fetchFailed
    /\ fetchCount' = fetchCount + 1
    /\ pc' = "failed"
    /\ UNCHANGED <<callClient, configuredModel, callRequest, callPayload, callReply,
                   callResult, replySegments, callStream, httpResponse, totalTokens,
                   yielded, uuidCtr, parserVars, histVars, wireVars>>

\* fetch rejects (network-level failure): postJson wraps the error and throws
\* (openAIClient.ts lines 1073-1075); the Ollama client lets the rejection of
\* its await fetch pass to the caller (part_001 lines 374-380, 458-464)
FetchRejects ==
    /\ pc = "sent"
    /\ callError' = "fetch failed"
    /\ errorText' = IF callClient = "openai" THEN postJsonRejected ELSE fetchFailed
    /\ pc' = "failed"
    /\ UNCHANGED <<callClient, configuredModel, callRequest, callPayload, fetchCount,
                   callReply, callResult, replySegments, callStream, httpResponse,
                   totalTokens, yielded, uuidCtr, parserVars, histVars, wireVars>>

\* fetch resolves with a response that is not ok: openAIClient.ts lines
\* 1077-1088, part_001 lines 382-386 and 466-470
HttpError ==
    /\ pc = "sent"
    /\ \E response \in ErrorResponses :
           /\ httpResponse' = response
           /\ errorText' = IF callClient = "openai" THEN postJsonError(response)
                           ELSE ollamaError(callStream, response)
    /\ callError' = "http"
    /\ pc' = "failed"
    /\ UNCHANGED <<callClient, configuredModel, callRequest, callPayload, fetchCount,
                   callReply, callResult, replySegments, callStream, totalTokens,
                   yielded, uuidCtr, parserVars, histVars, wireVars>>

\* generateContentStream after an ok response: the generator is returned, or
\* the call throws for a response without a body (openAIClient.ts lines
\* 505-511, part_001 lines 466-473); reading the body is SpecWire
StreamOpened ==
    /\ pc = "sent"
    /\ callStream
    /\ \E response \in OkResponses :
           /\ httpResponse' = response
           /\ callError' = IF response.hasBody THEN "none" ELSE "no body"
           /\ errorText' = IF response.hasBody THEN <<>>
                           ELSE IF callClient = "openai" THEN openAINoBody
                           ELSE ollamaError(TRUE, response)
           /\ pc' = IF response.hasBody THEN "streaming" ELSE "failed"
    /\ UNCHANGED <<callClient, configuredModel, callRequest, callPayload, fetchCount,
                   callReply, callResult, replySegments, callStream, totalTokens,
                   yielded, uuidCtr, parserVars, histVars, wireVars>>

\* embedContent that, wrongly, tries the embeddings endpoint first
EmbedContent_fallback ==
    /\ pc = "idle"
    /\ callError' = "unsupported"
    /\ errorText' = embedError(callClient)
    /\ fetchCount' = fetchCount + 1
    /\ pc' = "rejected"
    /\ UNCHANGED <<callClient, configuredModel, callRequest, callPayload, callReply,
                   callResult, replySegments, callStream, httpResponse, totalTokens,
                   yielded, uuidCtr, parserVars, histVars, wireVars>>

\* embedContent of either client: openAIClient.ts lines 601-607, part_001
\* lines 591-595
EmbedContent ==
    /\ pc = "idle"
    /\ callError' = "unsupported"
    /\ errorText' = embedError(callClient)
    /\ pc' = "rejected"
    /\ UNCHANGED <<callClient, configuredModel, callRequest, callPayload, fetchCount,
                   callReply, callResult, replySegments, callStream, httpResponse,
                   totalTokens, yielded, uuidCtr, parserVars, histVars, wireVars>>

NextCall ==
    \/ OpenAIRequest \/ OpenAIResponse \/ OllamaRequest \/ OllamaResponse
    \/ FetchRejects \/ HttpError \/ StreamOpened \/ EmbedContent

SpecCall == InitCall /\ [][NextCall]_vars

-----------------------------------------------------------------------------
(* Properties of the mapped response *)

\* the texts a message content carries on the wire, in order; with images, an
\* image reference counts as the text of its placeholder
RECURSIVE ItemTexts(_, _)
ItemTexts(items, images) ==
    IF items = <<>> THEN <<>>
    ELSE (IF ItemsText(<<Head(items)>>, images) # <<>>
          THEN <<ItemsText(<<Head(items)>>, images)>> ELSE <<>>)
         \o ItemTexts(Tail(items), images)

WireTexts(content, images) ==
    IF content.form = "string"
    THEN (IF content.str # <<>> THEN <<content.str>> ELSE <<>>)
    ELSE IF content.form = "array" THEN ItemTexts(content.items, images)
    ELSE <<>>

\* the entries of message.tool_calls that are tool calls
WireCalls(choice) == SelectSeq(choice.tool_calls, LAMBDA c : ~c.isNull)

TextsOf(parts) ==
    LET texts == SelectSeq(parts, LAMBDA q : q.kind = "text")
    IN  [i \in 1..Len(texts) |-> texts[i].text]

CallsOf(parts) ==
    LET calls == SelectSeq(parts, LAMBDA q : q.kind = "functionCall")
    IN  [i \in 1..Len(calls) |-> calls[i].functionCall]

\* the candidate of a choice: its texts, then its calls, named as given
CandidateMatchesChoice(candidate, choice, images) ==
    LET texts == TextsOf(candidate.parts)
        calls == CallsOf(candidate.parts)
        sent == WireCalls(choice)
    IN  /\ candidate.parts = [i \in 1..Len(texts) |-> TextPart(texts[i])]
                             \o CallParts(calls)
        /\ texts = WireTexts(choice.content, images)
        /\ Len(calls) = Len(sent)
        /\ \A j \in 1..Len(calls) :
               sent[j].name # Undef => calls[j].name = sent[j].name

ResponseMatchesCompletion(images) ==
    (callClient = "openai" /\ pc = "done") =>
        /\ Len(callResult.candidates) = Len(callReply.choices)
        /\ \A k \in 1..Len(callResult.candidates) :
               CandidateMatchesChoice(callResult.candidates[k], callReply.choices[k],
                                      images)
        /\ callResult.functionCalls =
               Flatten([k \in 1..Len(callResult.candidates) |->
                            CallsOf(callResult.candidates[k].parts)])
        /\ callResult.hasFunctionCalls <=>
               \E k \in 1..Len(callReply.choices) : WireCalls(callReply.choices[k]) # <<>>

\* C22 as stated: each choice of a non-streaming OpenAI response maps to one
\* candidate whose parts are the text parts of the choice in wire order
\* followed by one function-call part per wire tool call in wire order,
\* named as given; the top-level functionCalls list is the function calls of
\* all candidates in order, and is absent when there is no tool call.
C22_CandidatePartsAreTextThenCalls == ResponseMatchesCompletion(FALSE)

\* C22 (amended): as above, where the text parts of a choice are its
\* non-empty text items and, for each image reference with a URL, a text
\* part holding the placeholder of the image.
C22_CandidatePartsAreContentThenCalls == ResponseMatchesCompletion(TRUE)

\* the response of the test: one candidate with the text before the call
\* ping, and a top-level list of one call
C22_Witness ==
    /\ callClient = "openai"
    /\ pc = "done"
    /\ Len(callResult.candidates) = 1
    /\ Len(callResult.candidates[1].parts) = 2
    /\ callResult.candidates[1].parts[1].text = <<"H", "i", "!">>
    /\ callResult.candidates[1].parts[2].functionCall.name = <<"ping">>
    /\ Len(callResult.functionCalls) = 1
    /\ callResult.functionCalls[1].name = <<"ping">>
    /\ callResult.usageMetadata.totalTokenCount = 14

-----------------------------------------------------------------------------
(* Tool-call extraction over the text of an answer.  The text is written   *)
(* from pieces: plain characters, white space, and fenced or tagged        *)
(* blocks whose body is the JSON object P or is not JSON.                  *)

MaxSegments == 3

FencedBlock(body) == <<"~~~", "T", "\n">> \o body \o <<"\n", "~~~">>
TagBlock(body) == <<"<T>">> \o body \o <<"</T>">>

\* the blocks whose body parses to an object with a name
CallBlocks == {FencedBlock(PingPayload), TagBlock(PingPayload)}

\* the blocks whose body does not parse
BrokenBlocks == {FencedBlock(<<"h">>), TagBlock(<<"h">>)}

Segments == {<<"h">>, <<" ">>, <<"\n">>} \cup CallBlocks \cup BrokenBlocks

InitExtract ==
    /\ pc = "answered"
    /\ \E k \in 0..MaxSegments : replySegments \in [1..k -> Segments]
    /\ callClient = "ollama"
    /\ configuredModel = Undef
    /\ callRequest = Request(Undef, Undef, FALSE, <<>>)
    /\ callPayload = Payload(ollamaTargetModel(configuredModel, Undef), <<>>)
    /\ callError = "none"
    /\ fetchCount = 1
    /\ callReply = OllamaReply(Flatten(replySegments), NoCount, NoCount)
    /\ callResult = NoResult
    /\ callStream = FALSE
    /\ httpResponse = HttpResponse(200, <<"OK">>, Undef, TRUE)
    /\ errorText = <<>>
    /\ totalTokens = NoCount
    /\ yielded = <<>>
    /\ uuidCtr = 0
    /\ ParserIdle
    /\ HistIdle
    /\ WireIdle

\* part_001 lines 393-394: extractToolCalls over the text of the answer
ExtractToolCalls ==
    /\ pc = "answered"
    /\ \E r \in {ollamaResult(callPayload.model, callReply, uuidCtr)} :
           /\ callResult' = r.result
           /\ uuidCtr' = r.uuidCtr
    /\ pc' = "extracted"
    /\ UNCHANGED <<callClient, configuredModel, callRequest, callPayload, callError,
                   fetchCount, callReply, replySegments, callStream, httpResponse,
                   errorText, totalTokens, yielded, parserVars, histVars, wireVars>>

NextExtract == ExtractToolCalls

SpecExtract == InitExtract /\ [][NextExtract]_vars

\* the visible text of a result: the text of its text parts
VisibleText == Flatten(TextsOf(callResult.candidates[1].parts))

\* the pieces that are not a block with a call, joined
Remaining == Flatten(SelectSeq(replySegments, LAMBDA g : g \notin CallBlocks))

ExtractionMatchesBlocks(visible) ==
    pc = "extracted" =>
        /\ Len(callResult.functionCalls)
               = Len(SelectSeq(replySegments, LAMBDA g : g \in CallBlocks))
        /\ \A i \in 1..Len(callResult.functionCalls) :
               /\ callResult.functionCalls[i].name = <<"ping">>
               /\ callResult.functionCalls[i].args = JObj
        /\ CallsOf(callResult.candidates[1].parts) = callResult.functionCalls
        /\ VisibleText = visible

-----------------------------------------------------------------------------
(* Tool calls and tool results in the messages sent to the Ollama backend *)

\* the tool_result at position r of conv went out as a user message whose
\* content is the tool_result block with its call id and output
SentAsToolResult(conv, r) ==
    \E i \in 1..Len(messages) :
        /\ messages[i].role = "user"
        /\ messages[i].content = formatToolResult(PartAt(conv, r).functionResponse, 0).text
        /\ startsWith(messages[i].content, <<"~~~", "tool_result">>)

\* C24: every tool_result part with an id in the request conversation is sent
\* as a user-role message whose content is a tool_result fenced block with
\* that call id and the output object, also when the history holds no
\* tool_call for that id.
C24_IdentifiedResultIsSent ==
    Sent =>
        \A r \in ResponsePositions(original) :
            Truthy(PartAt(original, r).functionResponse.id) =>
                SentAsToolResult(original, r)

\* the text holds the opening of a tool_call fenced block
HasToolCallFence(text) ==
    \E k \in 1..(Len(text) - 1) : SubSeq(text, k, k + 1) = fencedRegex.open

\* the extraction over the text recovers the call
Recovers(text, fc) ==
    \E c \in {extractToolCalls(text, 0).functionCalls[k] :
                  k \in 1..Len(extractToolCalls(text, 0).functionCalls)} :
        /\ c.name = fc.name
        /\ c.args = fc.args

\* C25: a tool_call kept in the history goes out in an assistant message as
\* a tool_call fenced block, and the extraction of the adapter over that
\* message recovers one call with the name and the arguments of the original.
C25_ToolCallEncodingRoundTrips ==
    Sent =>
        \A q \in CallPositions(normalized) :
            \E i \in 1..Len(messages) :
                /\ messages[i].role = "assistant"
                /\ HasToolCallFence(messages[i].content)
                /\ Recovers(messages[i].content, PartAt(normalized, q).functionCall)

-----------------------------------------------------------------------------
(* Properties of the request of a generateContent call *)

\* a conversation of turns that hold text and nothing else
TextOnly(cs) ==
    \A k \in 1..Len(cs) :
        /\ cs[k].parts # <<>>
        /\ \A j \in 1..Len(cs[k].parts) :
               cs[k].parts[j].kind = "text" /\ cs[k].parts[j].text # <<>>

\* the messages that stand for turns of the conversation
TurnMessages == SelectSeq(callPayload.messages, LAMBDA m : m.role # "system")

\* the text of an outbound message
MessageText(m) ==
    IF callClient = "openai" THEN Flatten(WireTexts(m.content, FALSE)) ELSE m.content

\* the answer of the backend is plain text t
ReplyText ==
    IF callClient = "ollama" THEN callReply.content
    ELSE IF /\ Len(callReply.choices) = 1
            /\ callReply.choices[1].content.form = "string"
            /\ callReply.choices[1].tool_calls = <<>>
    THEN callReply.choices[1].content.str
    ELSE Undef

\* C26: for a conversation of text-only turns the request builder of each
\* adapter emits the turns in order, one message per turn with the text of
\* the turn verbatim, and a response whose text is t is mapped back to the
\* text t.
C26_TextTurnsRoundTrip ==
    /\ (pc \in {"sent", "done"} /\ TextOnly(callRequest.contents)) =>
           /\ Len(TurnMessages) = Len(callRequest.contents)
           /\ \A k \in 1..Len(TurnMessages) :
                  /\ TurnMessages[k].role = mapRole(callRequest.contents[k].role)
                  /\ MessageText(TurnMessages[k])
                         = Flatten(TextsOf(callRequest.contents[k].parts))
    /\ (pc = "done" /\ Truthy(ReplyText)
        /\ \A k \in 1..Len(ReplyText) : ReplyText[k] \notin FenceSymbols) =>
           Flatten(TextsOf(callResult.candidates[1].parts)) = ReplyText

\* C27: for an OpenAI request whose conversation is a single user text turn
\* and which has no system instruction, the user turn is the second message
\* of the outbound list (index 1): its role is user and its first content
\* part carries the text of the turn.
C27_UserTurnIsSecondMessage ==
    (/\ callClient = "openai"
     /\ pc # "idle"
     /\ callRequest.systemInstruction = Undef
     /\ callRequest.contents = <<Content("user", <<TextPart(<<"h", "i">>)>>)>>) =>
        /\ Len(callPayload.messages) >= 2
        /\ callPayload.messages[2].role = "user"
        /\ callPayload.messages[2].content.form = "array"
        /\ callPayload.messages[2].content.items[1].text = <<"h", "i">>

\* C28: in the OpenAI request builder a turn of role tool whose blocks are
\* tool_results yields one message of role tool per tool_result, carrying its
\* call id; the turn is not left out of the outbound messages.
C28_ToolTurnYieldsToolMessages ==
    (callClient = "openai" /\ pc # "idle") =>
        \A k \in 1..Len(callRequest.contents) :
            toLowerCase(callRequest.contents[k].role) = "tool" =>
                \A j \in 1..Len(callRequest.contents[k].parts) :
                    callRequest.contents[k].parts[j].kind = "functionResponse" =>
                        \E i \in 1..Len(callPayload.messages) :
                            /\ callPayload.messages[i].role = "tool"
                            /\ callPayload.messages[i].tool_call_id =
                                   callRequest.contents[k].parts[j].functionResponse.id

\* the model a backend falls back to when none is configured
BackendDefault ==
    IF callClient = "openai" THEN DEFAULT_OPENAI_MODEL ELSE <<"llama3">>

\* the hint of the request, if it may be used: it names no other family
UsableHint ==
    IF Truthy(callRequest.model) /\ ~includesGemini(callRequest.model)
    THEN {callRequest.model} ELSE {}

\* C29: for both adapters the model sent is the configured model of the
\* backend if there is one, whatever the hint of the request; otherwise it
\* is the default of the backend or the hint of the request, and the hint
\* only if it does not name the model family of another backend.
C29_ModelPrecedence ==
    pc \in {"sent", "done"} =>
        /\ Truthy(configuredModel) => callPayload.model = configuredModel
        /\ ~Truthy(configuredModel) =>
               callPayload.model \in {BackendDefault} \cup UsableHint

\* C30: for both adapters, if the conversation yields no sendable turn the
\* request builder fails and no network call is made.
C30_NoTurnsFailsBeforeFetch ==
    (pc # "idle" /\ TurnMessages = <<>>) =>
        /\ callError # "none"
        /\ fetchCount = 0

-----------------------------------------------------------------------------
(* Properties of the transport of a call *)

\* the call is over: it returned a response or a stream, or it threw
CallOver == pc \in {"done", "streaming", "failed"}

\* the call threw because a fetch failed or its response was not usable
TransportFailed == callError \in {"fetch failed", "http", "no body"}

\* a transport failure reaches the caller as the Error thrown by the call, and
\* the call returns nothing
Surfaced ==
    TransportFailed =>
        /\ pc = "failed"
        /\ errorText # <<>>
        /\ callResult = NoResult
        /\ yielded = <<>>

\* C31 (as stated): every generateContent or generateContentStream call of
\* either client that is over has called fetch exactly once, and a failed
\* fetch is surfaced to the caller
C31_ExactlyOneFetchPerCall ==
    /\ CallOver => fetchCount = 1
    /\ Surfaced

\* C31 (amended): a call that is over has called fetch exactly once when its
\* request was built and not at all when the request builder threw; fetch is
\* never called a second time, and a failed fetch is surfaced to the caller
C31_OneFetchPerBuiltRequest ==
    /\ CallOver =>
           fetchCount = IF callError = "no messages provided" THEN 0 ELSE 1
    /\ fetchCount <= 1
    /\ Surfaced

\* C31 (witness): a streaming call whose fetch was rejected has thrown after
\* one fetch
C31_Witness ==
    /\ pc = "failed"
    /\ callError = "fetch failed"
    /\ callStream
    /\ fetchCount = 1

\* the message of the thrown Error contains the text
Mentions(text) ==
    \E i \in 1..Len(errorText) :
        /\ i + Len(text) - 1 <= Len(errorText)
        /\ SubSeq(errorText, i, i + Len(text) - 1) = text

\* C32: after a response that is not 2xx the call of either client has thrown
\* an Error whose message holds the status code of the response and, when the
\* body held an error message, that message as well; nothing was yielded or
\* returned
C32_HttpErrorCarriesStatusAndMessage ==
    (pc = "failed" /\ callError = "http") =>
        /\ Mentions(<<ToString(httpResponse.status)>>)
        /\ Truthy(httpResponse.message) => Mentions(httpResponse.message)
        /\ callResult = NoResult
        /\ yielded = <<>>

\* embedContent leaves the client and the transport as they were
EmbedChangesNothing ==
    pc' = "rejected" =>
        UNCHANGED <<callClient, configuredModel, fetchCount, callPayload,
                    httpResponse, callResult, yielded, uuidCtr>>

-----------------------------------------------------------------------------
(* countTokens of both clients *)

MaxCountTurns == 2

\* the text of a part that countTokens counts: the OpenAI client counts a
\* non-empty text member only, the Ollama client counts partToText
countedText(client, part) ==
    IF client = "openai"
    THEN IF part.kind = "text" /\ Truthy(part.text) THEN part.text ELSE <<>>
    ELSE partToText(part)

\* content.parts?.map(...).join('')
RECURSIVE joinCounted(_, _)
joinCounted(client, parts) ==
    IF parts = <<>> THEN <<>>
    ELSE countedText(client, Head(parts)) \o joinCounted(client, Tail(parts))

\* contents.reduce((sum, content) => sum + text.length, 0)
RECURSIVE totalChars(_, _)
totalChars(client, cs) ==
    IF cs = <<>> THEN 0
    ELSE Len(joinCounted(client, Head(cs).parts)) + totalChars(client, Tail(cs))

\* Math.ceil(n / 4) of a count of characters
ceil4(n) == (n + 3) \div 4

\* Math.max(1, Math.floor(totalChars / 4))
countTokens_floor(client, cs) ==
    LET n == totalChars(client, cs)
    IN  IF n \div 4 > 1 THEN n \div 4 ELSE 1

\* Math.max(1, Math.ceil(totalChars / 4))
countTokens(client, cs) ==
    LET n == totalChars(client, cs)
    IN  IF ceil4(n) > 1 THEN ceil4(n) ELSE 1

\* a text of k characters
RECURSIVE TextOfLength(_)
TextOfLength(k) == IF k = 0 THEN <<>> ELSE <<"x">> \o TextOfLength(k - 1)

\* the turns of the conversations that are counted: texts of 0, 1, 3, 4 and 5
\* characters, two text parts in one turn, a function call, no part
CountTurns ==
    {Content("user", <<TextPart(TextOfLength(k))>>) : k \in {0, 1, 3, 4, 5}}
    \cup {Content("model", <<TextPart(TextOfLength(4)), TextPart(TextOfLength(5))>>),
          Content("model", <<HistoryCall(<<"call-1">>, <<"ping">>)>>),
          Content("user", <<>>)}

InitCount ==
    /\ pc = "idle"
    /\ callClient \in {"openai", "ollama"}
    /\ configuredModel = Undef
    /\ \E k \in 0..MaxCountTurns :
           \E cs \in [1..k -> CountTurns] :
               callRequest = Request(Undef, Undef, FALSE, cs)
    /\ callPayload = Payload(Undef, <<>>)
    /\ callError = "none"
    /\ fetchCount = 0
    /\ callReply = <<>>
    /\ callResult = NoResult
    /\ replySegments = <<>>
    /\ callStream = FALSE
    /\ httpResponse = NoHttpResponse
    /\ errorText = <<>>
    /\ totalTokens = NoCount
    /\ yielded = <<>>
    /\ uuidCtr = 0
    /\ ParserIdle
    /\ HistIdle
    /\ WireIdle

\* countTokens of either client: openAIClient.ts lines 586-599, part_001
\* lines 573-589
CountTokens ==
    /\ pc = "idle"
    /\ totalTokens' = countTokens(callClient, callRequest.contents)
    /\ pc' = "counted"
    /\ UNCHANGED <<callClient, configuredModel, callRequest, callPayload, callError,
                   fetchCount, callReply, callResult, replySegments, callStream,
                   httpResponse, errorText, yielded, uuidCtr, parserVars, histVars,
                   wireVars>>

NextCount == CountTokens

SpecCount == InitCount /\ [][NextCount]_vars

\* the number of characters of the counted text of the conversation
CountedChars == totalChars(callClient, callRequest.contents)

\* the conversations of InitCount
CountedConversations == UNION {[1..k -> CountTurns] : k \in 0..MaxCountTurns}

\* C34: the count returned is max(1, ceil(n / 4)) for the n characters of
\* counted text: at least 1, the least number of groups of four that hold n
\* characters when n is more than 4, and no conversation with at least as
\* many characters gets a smaller count
C34_TokensAreCeilOfQuarter ==
    pc = "counted" =>
        /\ totalTokens >= 1
        /\ 4 * totalTokens >= CountedChars
        /\ CountedChars > 4 => 4 * (totalTokens - 1) < CountedChars
        /\ CountedChars <= 4 => totalTokens = 1
        /\ \A cs \in CountedConversations :
               totalChars(callClient, cs) >= CountedChars
                   => countTokens(callClient, cs) >= totalTokens

\* C34 (witness): a conversation of 9 counted characters was counted as 3
C34_Witness ==
    /\ pc = "counted"
    /\ CountedChars = 9
    /\ totalTokens = 3

-----------------------------------------------------------------------------
(* Two streaming responses obtained from one client and pulled in any     *)
(* order.  Each call of generateContentStream makes its own reader,        *)
(* decoder, parser and generator; the generator's buffer is a local of     *)
(* its body.                                                               *)

MaxPairLines == 2

\* the lines of the two bodies: a frame with text and, for the OpenAI client,
\* a frame that opens a tool call (left to the flush at the end of the body),
\* for the Ollama client the done frame
PairLines(a) ==
    IF a = "openai"
    THEN {DATA_PREFIX \o <<" ", "{c:", "h", "}">>, DATA_PREFIX \o <<" ", "{tc{">>}
    ELSE {<<"{c:", "h", "}">>, <<"{done}">>}

PairBodies(a) ==
    {Join(lines, TRUE) : lines \in UNION {[1..k -> PairLines(a)] : k \in 0..MaxPairLines}}
    \cup {Join(<<line>>, FALSE) : line \in PairLines(a)}

\* one streaming response: its body, how much of it was read, the state of
\* its generator (st.outs are the increments it yielded) and whether the
\* generator has finished
Stream(w, a) ==
    [wire |-> w, received |-> 0,
     st |-> IF a = "openai" THEN OpenAIStart ELSE OllamaStart, over |-> FALSE]

\* the state a generator would work on if the line buffer were a field of
\* the client, set up by the first call
generatorState_sharedBuffer(ss, i) == [ss[i].st EXCEPT !.buffer = ss[1].st.buffer]

\* the state the generator of response i works on: const reader, decoder and
\* parser of its call and let buffer (usage, finishReason) of its body
generatorState(ss, i) == ss[i].st

InitPair ==
    /\ pc = "streaming"
    /\ adapter \in {"openai", "ollama"}
    /\ \E w1 \in PairBodies(adapter) :
         \E w2 \in PairBodies(adapter) :
             streams = <<Stream(w1, adapter), Stream(w2, adapter)>>
    /\ wire = <<>>
    /\ received = 0
    /\ streamBuffer = <<>>
    /\ decoderPending = <<>>
    /\ streamFinishReason = NoReason
    /\ streamUsage = NoMetadata
    /\ readerLocked = FALSE
    /\ aborted = FALSE
    /\ yielded = <<>>
    /\ uuidCtr = 0
    /\ ParserIdle
    /\ HistIdle
    /\ CallIdle

\* the consumer of response i pulls and its generator reads the next k bytes
\* (openAIClient.ts lines 519-537, part_001 lines 482-496)
PairRead ==
    /\ pc = "streaming"
    /\ \E i \in 1..2 :
         /\ ~streams[i].over
         /\ \E k \in 1..(Len(streams[i].wire) - streams[i].received) :
              \E value \in {SubSeq(streams[i].wire, streams[i].received + 1,
                                   streams[i].received + k)} :
                \E r \in {IF adapter = "openai"
                          THEN openAIRead(generatorState(streams, i), value, FALSE)
                          ELSE ollamaRead(generatorState(streams, i), value)} :
                    streams' = [streams EXCEPT
                                   ![i].received = @ + k,
                                   ![i].st = r,
                                   ![i].over = adapter = "openai" /\ r.returned]
    /\ UNCHANGED <<pc, yielded, uuidCtr, adapter, wire, received, streamBuffer,
                   decoderPending, streamFinishReason, streamUsage, readerLocked,
                   aborted, parserVars, histVars, callVars>>

\* the consumer of response i pulls and its reader reports done
\* (openAIClient.ts lines 556-576, part_001 lines 484-486 and 553-567)
PairEnd ==
    /\ pc = "streaming"
    /\ \E i \in 1..2 :
         /\ ~streams[i].over
         /\ streams[i].received = Len(streams[i].wire)
         /\ \E r \in {IF adapter = "openai"
                      THEN openAIRead(generatorState(streams, i), <<>>, TRUE)
                      ELSE ollamaEnd(generatorState(streams, i))} :
                streams' = [streams EXCEPT ![i].st = r, ![i].over = TRUE]
    /\ UNCHANGED <<pc, yielded, uuidCtr, adapter, wire, received, streamBuffer,
                   decoderPending, streamFinishReason, streamUsage, readerLocked,
                   aborted, parserVars, histVars, callVars>>

NextPair == PairRead \/ PairEnd

SpecPair == InitPair /\ [][NextPair]_vars

\* the increments response i yields when it is the only response of the
\* client and is read as far as it is now
Alone(i) ==
    OneRead(adapter, SubSeq(streams[i].wire, 1, streams[i].received),
            streams[i].over /\ streams[i].received = Len(streams[i].wire))

\* C35: however the pulls on two streaming responses of one client are
\* interleaved, each response has yielded exactly the increments it yields
\* when consumed alone
C35_InterleavedStreamsAreIndependent ==
    pc = "streaming" =>
        \A i \in 1..2 : streams[i].st.outs = Alone(i)

\* C35 (witness): the first response holds an unfinished tool call in its
\* accumulator map and a partial line in its buffer while the second one,
\* started after it, has finished and yielded
C35_Witness ==
    /\ pc = "streaming"
    /\ adapter = "openai"
    /\ ~streams[1].over
    /\ streams[1].st.buffers # <<>>
    /\ streams[1].st.buffer # <<>>
    /\ streams[2].over
    /\ streams[2].st.outs # <<>>

-----------------------------------------------------------------------------
(* The unterminated last line of an Ollama body *)

\* the bytes after the last newline of the body
RECURSIVE LastLine(_)
LastLine(w) ==
    LET At(i) == IF i = 0 THEN w ELSE LastLine(SubSeq(w, i + 1, Len(w)))
    IN  At(indexOf(w, "\n", 1))

\* the body with its last line terminated
Terminated(w) == IF LastLine(w) = <<>> THEN w ELSE w \o <<"\n">>

\* C36: when the connection of an Ollama stream closes on an unterminated
\* line, that line is parsed once and, if it is JSON, processed like any other
\* frame (a done frame gives the final increment with finish reason and
\* usage); otherwise it is dropped: the response is the response of the same
\* body with the last line terminated
C36_TrailingLineIsParsedOnce ==
    (pc = "closed" /\ adapter = "ollama") =>
        yielded = OneRead("ollama", Terminated(wire), TRUE)

-----------------------------------------------------------------------------
(* The call finalize makes of a slot at the end of an OpenAI stream *)

\* the parse of the longest prefix of the text that parses (to a truthy value,
\* if truthyOnly): the value parsed last while the fragments came in
RECURSIVE LastParsed(_, _)
LastParsed(s, truthyOnly) ==
    IF s = <<>> THEN JUndef
    ELSE IF IF truthyOnly THEN JTruthy(JSONparse(s)) ELSE JSONparse(s) # JUndef
    THEN JSONparse(s)
    ELSE LastParsed(SubSeq(s, 1, Len(s) - 1), truthyOnly)

\* the arguments the best-value rule gives for the fragments s of a slot; with
\* truthyOnly a parse that gave null does not count as a parse of the whole
\* text, and an earlier parse counts only if its value was truthy
BestArguments(s, truthyOnly) ==
    IF IF truthyOnly THEN ~JNullish(JSONparse(s)) ELSE JSONparse(s) # JUndef
    THEN JSONparse(s)
    ELSE IF LastParsed(s, truthyOnly) # JUndef THEN LastParsed(s, truthyOnly)
    ELSE IF s # <<>> THEN JRaw(s)
    ELSE JObj

\* the calls of the trailing increment, one per accumulator the flush found,
\* follow the rule for every slot that had a single accumulator
FinalizedByRule(truthyOnly) ==
    (Ended /\ lastFrame.kind = "end") =>
        \A k \in 1..Len(lastFrame.before) :
            \E slot \in {lastFrame.before[k]} :
                slotSeen[slot.index] = 1 =>
                    \E call \in {lastFrame.outs[1].functionCalls[k]} :
                        /\ call.id = slot.acc.id
                           \/ (/\ ~Truthy(slot.acc.id)
                               /\ \E j \in 1..Len(UUIDS) : call.id = UUIDS[j])
                        /\ call.name = IF Truthy(slot.acc.name) THEN slot.acc.name
                                       ELSE <<"tool_call">>
                        /\ call.args = BestArguments(slotFragments[slot.index], truthyOnly)

-----------------------------------------------------------------------------
(* The frame at which a slot's call is emitted *)

\* the fragments slot i had received before the frame processed last
FragmentsBefore(i) ==
    SubSeq(slotFragments[i], 1,
           Len(slotFragments[i]) - Len(ChunkFragments(lastFrame.chunk.choices, i)))

\* the frame processed last is the one at which the fragments of slot i
\* parse for the first time
FirstParseAt(i) ==
    /\ lastFrame.kind = "data"
    /\ LastParsed(FragmentsBefore(i), FALSE) = JUndef
    /\ LastParsed(slotFragments[i], FALSE) # JUndef

\* C38: the call of a slot is emitted in the increments of the very frame at
\* which the concatenation of its argument fragments parses for the first
\* time, whether or not the slot has received its id and its name by then
C38_EmittedAtFirstParse ==
    \A i \in Slots :
        FirstParseAt(i) =>
            /\ Len(slotCalls[i]) = 1
            /\ \E k \in 1..Len(lastFrame.outs) :
                   \E j \in 1..Len(lastFrame.outs[k].functionCalls) :
                       lastFrame.outs[k].functionCalls[j] = slotCalls[i][1]

-----------------------------------------------------------------------------
(* Tool messages of the OpenAI request and the calls they answer *)

\* the ids of the tool calls of the assistant messages before position q
CallIdsBefore(msgs, q) ==
    UNION {{msgs[p].tool_calls[j].id : j \in 1..Len(msgs[p].tool_calls)} :
              p \in {r \in 1..(q - 1) : msgs[r].role = "assistant"}}

\* the ids the tool messages before position q refer to
AnsweredBefore(msgs, q) ==
    {msgs[p].tool_call_id : p \in {r \in 1..(q - 1) : msgs[r].role = "tool"}}

\* C39: in the message list of an OpenAI request the tool_call_id of every
\* tool message is the id of a tool call of an earlier assistant message that
\* no earlier tool message refers to
C39_ToolMessageAnswersEarlierCall ==
    callClient = "openai" =>
        \A q \in 1..Len(callPayload.messages) :
            callPayload.messages[q].role = "tool" =>
                /\ callPayload.messages[q].tool_call_id
                       \in CallIdsBefore(callPayload.messages, q)
                /\ callPayload.messages[q].tool_call_id
                       \notin AnsweredBefore(callPayload.messages, q)

-----------------------------------------------------------------------------
(* The finish reason and what is yielded after it *)

\* the increment carries text or tool calls
HasContent(inc) == inc.parts # <<>> \/ inc.functionCalls # <<>>

\* C40: in a streaming response of either client, once an increment with a
\* finish reason has been yielded, no later increment carries text or tool
\* calls and none carries a finish reason
C40_NothingAfterFinishReason ==
    adapter \in {"openai", "ollama"} =>
        \A i \in 1..Len(yielded) :
            yielded[i].finishReason # NoReason =>
                \A j \in (i + 1)..Len(yielded) :
                    /\ ~HasContent(yielded[j])
                    /\ yielded[j].finishReason = NoReason

====
